---- MODULE Spec2Model ----
(***************************************************************************)
(* Batch orchestration and retry subsystem of the CallRail extractor:      *)
(* MasterDownloader.download_endpoints (run coordinator),                  *)
(* BaseProcessor.process_endpoint / process_in_batches (endpoint           *)
(* orchestrator), BaseProcessor.fetch_batch under RetryHandler's tenacity  *)
(* decorator (retry policy) and CallRailClient._make_request (transport).  *)
(***************************************************************************)
EXTENDS Integers, Naturals, Sequences, FiniteSets, TLC

VARIABLES
    pc,                 \* position of the single thread of control
    endpoint_names,     \* download_endpoints argument
    limit,              \* download_endpoints argument (Optional[int])
    batch_size,         \* download_endpoints argument (Optional[int])
    account_id,         \* MasterDownloader.account_id
    idx,                \* position of the for loop over endpoint_names
    results,            \* results['endpoints']
    summary,            \* results['summary']
    actual_limit,       \* process_endpoint local
    actual_batch_size,  \* process_endpoint local
    offset,             \* process_in_batches local
    batch_number,       \* process_in_batches local
    current_batch_size, \* process_in_batches local
    all_records,        \* process_endpoint local
    error_count,        \* process_endpoint local
    attempt_number,     \* tenacity's attempt counter of the running fetch_batch
    response,           \* what the transport answered to the last page request
    raised,             \* exception that escaped fetch_batch (NoExc if none)
    wait,               \* seconds slept before the next attempt (0: no sleep yet)
    batch_records,      \* first component of the tuple yielded by process_in_batches
    batch_errors,       \* second component of the tuple yielded
    result,             \* value returned by process_endpoint
    windows,            \* log of the windows of the running endpoint
    processor_account_id, \* account id the running processor was built with
    sink_calls,         \* calls of csv_writer.write_records in the endpoint run
    files,              \* the data directory: file name -> content
    run,                \* number of download_endpoints calls on the coordinator
    account_lookups,    \* number of account lookups sent by the coordinator
    network_used,       \* a transport call was made during the current run
    run_error,          \* exception download_endpoints raised (NoError if none)
    exit_status,        \* status main passed to sys.exit (None before)
    call,               \* pure-function checks: the call under evaluation
    ret,                \* pure-function checks: what the call returned
    company_attempt,    \* tenacity's attempt counter of the running company lookup
    company_lookups,    \* company lookup requests sent to the transport in the run
    params              \* parameters build_request_params returned (NoParams before)

vars == <<pc, endpoint_names, limit, batch_size, account_id, idx, results,
          summary, actual_limit, actual_batch_size, offset, batch_number,
          current_batch_size, all_records, error_count, attempt_number,
          response, raised, wait, batch_records, batch_errors, result, windows,
          processor_account_id, sink_calls, files, run, account_lookups,
          network_used, run_error, exit_status, call, ret,
          company_attempt, company_lookups, params>>

coordVars == <<endpoint_names, limit, batch_size, account_id, idx, results, summary>>
loopVars  == <<actual_limit, actual_batch_size, offset, batch_number,
               current_batch_size, all_records, error_count, windows,
               processor_account_id>>
retryVars == <<attempt_number, response, raised, wait>>
yieldVars == <<batch_records, batch_errors>>
sinkVars  == <<sink_calls, files>>
runVars   == <<run, account_lookups, network_used, run_error, exit_status>>
pureVars  == <<call, ret>>
companyVars == <<company_attempt, company_lookups, params>>

(***************************************************************************)
(* Bounds of the model.                                                    *)
(***************************************************************************)
MaxLimit   == 5     \* largest requested limit drawn (besides the scenario)
MaxBatch   == 2     \* largest requested batch size drawn
MaxWindows == 3     \* runs with more windows than this are not drawn
MaxRuns    == 2     \* download_endpoints calls on one reused coordinator
MaxItems   == 2     \* records in an array of a response body
MaxKeys    == 2     \* keys of a response body that is a mapping
MaxRecords == 2     \* raw records in a batch given to process_records
MaxAttemptNumber == 8   \* failed attempts a wait is computed for
MaxSize    == 3     \* small window sizes request parameters are built for
MaxOffset  == 6     \* small window offsets request parameters are built for

(***************************************************************************)
(* Configuration (config/settings.py).                                     *)
(***************************************************************************)
max_attempts             == 3
base_delay               == 1
max_delay                == 60
exponential_base         == 2
default_batch_size       == 100
max_records_per_endpoint == 100
max_per_page             == 250

(***************************************************************************)
(* Python values.                                                          *)
(***************************************************************************)
None    == <<>>                 \* Optional[int]: None is <<>>, n is <<n>>
Some(n) == <<n>>

\* Python's None as the value of an attribute that otherwise holds a string.
NoneId == "None"

\* Variant: only None counts as unset.
Truthy_NotNone(s) == s # NoneId

\* Truth value of an Optional[str]: None and "" are false.
Truthy(s) == s \notin {NoneId, ""}

\* Variant: the default is taken whatever was requested.
PyOr_AlwaysDefault(x, d) == d

\* `x or d` on an Optional[int]: None and 0 are falsy.
PyOr(x, d) == IF x = None \/ x = Some(0) THEN d ELSE x[1]

Min(a, b) == IF a <= b THEN a ELSE b

RECURSIVE Pow(_, _)
Pow(b, e) == IF e = 0 THEN 1 ELSE b * Pow(b, e - 1)

\* Variant: the slice keeps everything.
Take_All(s, n) == s

\* s[:n]
Take(s, n) == SubSeq(s, 1, Min(n, Len(s)))

(***************************************************************************)
(* Endpoint catalog (config/endpoints.py) and the processor table.         *)
(***************************************************************************)
EndpointNames == {"accounts", "calls", "companies", "form_submissions",
                  "integrations", "tags", "trackers", "users",
                  "text_messages", "notifications", "outbound_caller_ids"}

\* EndpointConfig.fields of the catalog entries
Fields(name) ==
    CASE name = "accounts" ->
        <<"id", "name", "created_at">>
      [] name = "calls" ->
        <<"id", "answered", "business_phone_number", "customer_city",
          "customer_country", "customer_name", "customer_phone_number",
          "customer_state", "direction", "duration", "recording",
          "recording_duration", "recording_player", "start_time",
          "tracking_phone_number", "voicemail">>
      [] name = "companies" ->
        <<"id", "name", "status", "time_zone", "created_at">>
      [] name = "form_submissions" ->
        <<"id", "company_id", "person_id", "form_data", "form_url",
          "landing_page_url", "referrer", "referring_url", "submitted_at",
          "first_form", "customer_phone_number", "customer_name",
          "customer_email">>
      [] name = "integrations" ->
        <<"id", "config", "state", "type">>
      [] name = "tags" ->
        <<"id", "name", "tag_level", "color", "background_color",
          "company_id", "status", "disabled", "created_at", "hex_color",
          "hex_background_color">>
      [] name = "trackers" ->
        <<"id", "name", "type", "status", "destination_number",
          "created_at">>
      [] name = "users" ->
        <<"id", "email", "first_name", "last_name", "role", "created_at">>
      [] name = "text_messages" ->
        <<"id", "company_id", "initial_tracker_id", "current_tracker_id",
          "customer_name", "customer_phone_number",
          "initial_tracking_number", "current_tracking_number",
          "last_message_at", "state">>
      [] name = "notifications" ->
        <<"id", "config", "name", "company_id">>
      [] name = "outbound_caller_ids" ->
        <<"id", "phone_number", "name", "verified", "created_at">>
      [] OTHER -> <<>>

\* EndpointConfig.optional_fields of the catalog entries
OptionalFields(name) ==
    CASE name = "accounts" ->
        <<"numeric_id", "inbound_recording_enabled",
          "outbound_recording_enabled", "hipaa_account", "features",
          "outbound_recording_on_by_default", "masked_id",
          "outbound_greeting_enabled", "agency_in_trial",
          "has_zuora_account", "brand_status",
          "approaching_cold_outbound_limit",
          "allow_cold_outbound_texting", "allow_texting",
          "ten_dlc_effective_date", "has_unique_subaccount">>
      [] name = "calls" ->
        <<"agent_email", "call_highlights", "call_summary", "call_type",
          "campaign", "company_id", "company_name", "company_time_zone",
          "created_at", "custom", "device_type", "fbclid", "first_call",
          "formatted_call_type", "formatted_customer_location",
          "formatted_business_phone_number", "formatted_customer_name",
          "formatted_customer_name_or_phone_number",
          "formatted_customer_phone_number", "formatted_duration",
          "formatted_tracking_phone_number", "formatted_tracking_source",
          "formatted_value", "ga", "gclid", "good_lead_call_id",
          "good_lead_call_time", "keypad_entries", "keywords",
          "keywords_spotted", "landing_page_url", "last_requested_url",
          "lead_status", "medium", "milestones", "msclkid", "note",
          "person_id", "prior_calls", "referrer_domain", "referring_url",
          "sentiment", "session_uuid", "source", "source_name",
          "speaker_percent", "tags", "detail_tags", "timeline_url",
          "total_calls", "tracker_id", "transcription", "utm_campaign",
          "utm_content", "utm_medium", "utm_source", "utm_term", "utma",
          "utmb", "utmc", "utmv", "utmz", "value", "voice_assist_message",
          "waveforms", "zip_code", "blocked_number">>
      [] name = "companies" ->
        <<"disabled_at", "dni_active", "script_url", "callscore_enabled",
          "lead_scoring_enabled", "swap_exclude_jquery",
          "swap_ppc_override", "swap_landing_override",
          "swap_cookie_duration", "swap_cookie_duration_unit",
          "callscribe_enabled", "keyword_spotting_enabled",
          "form_capture", "verified_caller_ids", "masked_id">>
      [] name = "form_submissions" ->
        <<"formatted_customer_phone_number", "formatted_customer_name",
          "source", "keywords", "campaign", "medium", "lead_status",
          "note", "tags", "detail_tags", "milestones", "value",
          "utm_source", "utm_medium", "utm_campaign", "form_name",
          "company_name", "person_email", "timeline_url", "blocked_number">>
      [] name = "integrations" ->
        <<"signing_key">>
      [] name = "tags" ->
        <<>>
      [] name = "trackers" ->
        <<"tracking_numbers", "whisper_message", "sms_supported",
          "sms_enabled", "company", "source", "call_flow", "disabled_at",
          "call_alerts", "sms_alerts", "swap_targets", "campaign_name",
          "message_flow">>
      [] name = "users" ->
        <<"name", "companies">>
      [] name = "text_messages" ->
        <<"company_time_zone", "formatted_customer_phone_number",
          "formatted_initial_tracking_number",
          "formatted_current_tracking_number", "formatted_customer_name",
          "recent_messages", "lead_status", "source">>
      [] name = "notifications" ->
        <<"agent_id", "agent_name", "alert_type", "call_enabled",
          "company_name", "short_name", "send_desktop", "send_email",
          "send_push", "sms_enabled", "tags", "tracker_id",
          "tracker_name", "user_id", "email">>
      [] name = "outbound_caller_ids" ->
        <<"company_id", "formatted_phone_number", "validation_code">>
      [] OTHER -> <<>>

\* Variant: only the required fields are listed.
GetAllFields_RequiredOnly(name) == Fields(name)

\* EndpointRegistry.get_all_fields
GetAllFields(name) == Fields(name) \o OptionalFields(name)

\* Requested endpoint lists the runs are drawn from.
RequestedLists == { <<"calls">>,
                    <<"accounts">>,
                    <<"users", "calls">>,
                    <<"calls", "bogus_endpoint">>,
                    <<"nope", "calls", "bogus_endpoint">> }

\* Arguments of the runs on a reused coordinator.
RerunLists  == { <<"calls">>, <<"accounts", "calls">>, <<"calls", "calls">>,
                 <<"bogus_endpoint">> }
RerunLimits == { Some(1) }
RerunBatchSizes == { None }

\* Requested limits and batch sizes the runs are drawn from.
LimitInputs == {None, Some(-1)} \cup {Some(n) : n \in 0..MaxLimit}
BatchInputs == {None} \cup {Some(n) : n \in 0..MaxBatch}

\* total_batches of process_in_batches
TotalBatches(lim, bs) == (lim + bs - 1) \div bs

(***************************************************************************)
(* Transport: CallRailClient._make_request.                                *)
(***************************************************************************)
NoResponse == [kind |-> "none", status |-> 0, n |-> 0, retry_after |-> 0]
NoExc      == [cls |-> "none", status_code |-> 0]

\* Retry-After values a 429 answer may carry (0: header absent).
RetryAfterValues == {0, 7}

\* Status codes other than 200 the remote answers with.
ErrorStatuses == {400, 401, 403, 404, 500, 302}

\* Number of records a 200 page may hold when `size` were asked for:
\* an empty page, a short page, a full page, an oversized page.
ReturnCounts(size) == {c \in {0, size - 1, size, size + 1} : c >= 0}

Responses(size) ==
    {[kind |-> "http", status |-> 200, n |-> c, retry_after |-> 0] :
        c \in ReturnCounts(size)}
    \cup {[kind |-> "http", status |-> s, n |-> 0, retry_after |-> 0] :
        s \in ErrorStatuses}
    \cup {[kind |-> "http", status |-> 429, n |-> 0, retry_after |-> r] :
        r \in RetryAfterValues}
    \cup {[kind |-> "conn", status |-> 0, n |-> 0, retry_after |-> 0]}

\* The exception _make_request raises for a response (NoExc: it returns).
MakeRequestException(resp) ==
    IF resp.kind = "conn"
    THEN [cls |-> "CallRailAPIException", status_code |-> 0]
    ELSE CASE resp.status = 200 -> NoExc
           [] resp.status = 400 -> [cls |-> "ValidationError", status_code |-> 400]
           [] resp.status = 401 -> [cls |-> "AuthenticationError", status_code |-> 401]
           [] resp.status = 403 -> [cls |-> "AuthenticationError", status_code |-> 403]
           [] resp.status = 404 -> [cls |-> "NotFoundError", status_code |-> 404]
           [] resp.status = 429 -> [cls |-> "RateLimitError", status_code |-> 429]
           [] resp.status >= 500 -> [cls |-> "ServerError", status_code |-> resp.status]
           [] OTHER -> [cls |-> "CallRailAPIException", status_code |-> resp.status]

(***************************************************************************)
(* Retry policy: RetryHandler.get_retry_decorator (tenacity).              *)
(***************************************************************************)
\* Variant: every API exception is retried.
RetryIfExceptionType_Any(exc) == exc.cls # "none"

\* retry=retry_if_exception_type((...))
RetryIfExceptionType(exc) ==
    exc.cls \in {"RateLimitError", "ServerError", "ConnectionError",
                 "Timeout", "ChunkedEncodingError"}

\* Variant: the policy stops one attempt early.
StopAfterAttempt_Early(attempt) == attempt >= max_attempts - 1

\* Variant: one more attempt is allowed.
StopAfterAttempt_Late(attempt) == attempt >= max_attempts + 1

\* stop=stop_after_attempt(max_attempts)
StopAfterAttempt(attempt) == attempt >= max_attempts

\* Variant: the wait is not capped.
WaitExponentialWith_Uncapped(multiplier, max, exp_base, attempt) ==
    multiplier * Pow(exp_base, attempt - 1)

\* tenacity's wait_exponential(multiplier, max, exp_base) before the
\* attempt that follows failed attempt number `attempt` (counted from 1).
WaitExponentialWith(multiplier, max, exp_base, attempt) ==
    Min(multiplier * Pow(exp_base, attempt - 1), max)

\* wait=wait_exponential(multiplier=base_delay, max=max_delay, exp_base=...)
WaitExponential(attempt) ==
    WaitExponentialWith(base_delay, max_delay, exponential_base, attempt)

\* Variant: reraise=False, tenacity raises its RetryError wrapper.
Reraise_Wrapped(exc) == [cls |-> "RetryError", status_code |-> 0]

\* reraise=True: the exception of the last attempt leaves the decorator.
Reraise(exc) == exc

(***************************************************************************)
(* Endpoint orchestrator helpers.                                          *)
(***************************************************************************)
\* Records extracted and processed from a 200 page holding n records.
PageRecords(bn, n) == [i \in 1..n |-> [batch |-> bn, i |-> i]]

\* Variant: one more window is generated when the offset equals the limit.
MoreBatches_Inclusive(off, lim) == off <= lim

\* while offset < limit
MoreBatches(off, lim) == off < lim

\* Variant: the last window is not truncated.
CurrentBatchSize_Full(bs, lim, off) == bs

\* current_batch_size = min(batch_size, limit - offset)
CurrentBatchSize(bs, lim, off) == Min(bs, lim - off)

\* Variant: a failed window is not counted.
FailureYield_Uncounted == [records |-> <<>>, errors |-> 0]

\* `yield [], 1` of the except branch of process_in_batches
FailureYield == [records |-> <<>>, errors |-> 1]

\* Variant: error_count = batch_errors.
AddErrors_Overwrite(ec, be) == be

\* error_count += batch_errors
AddErrors(ec, be) == ec + be

\* Variant: any error makes the endpoint fail.
SuccessFlag_NoErrors(nrecords, nerrors) == nerrors = 0

\* 'success' of the normal-path result
SuccessFlag(nrecords, nerrors) == nrecords > 0 \/ nerrors = 0

\* Variant: the result names an output file whether or not one was written.
NormalResult_AlwaysPath(name, recs, ec, path) ==
    [endpoint |-> name, records_processed |-> Len(recs), errors |-> ec,
     csv_file |-> name, success |-> SuccessFlag(Len(recs), ec), error |-> ""]

\* Result of the normal path of process_endpoint
NormalResult(name, recs, ec, path) ==
    [endpoint |-> name, records_processed |-> Len(recs), errors |-> ec,
     csv_file |-> path, success |-> SuccessFlag(Len(recs), ec), error |-> ""]

\* Variant: the result of a failed write keeps the counts of the run.
ExceptionResult_KeepsCounts(name, msg) ==
    [endpoint |-> name, records_processed |-> Len(all_records),
     errors |-> error_count + 1, csv_file |-> "", success |-> FALSE,
     error |-> msg]

\* Result of the except branch of process_endpoint
ExceptionResult(name, msg) ==
    [endpoint |-> name, records_processed |-> 0, errors |-> 1,
     csv_file |-> "", success |-> FALSE, error |-> msg]

\* Variant: the crash of an endpoint is not counted as an error.
CoordinatorResult_NoError(name, msg) ==
    [endpoint |-> name, records_processed |-> 0, errors |-> 0,
     csv_file |-> "", success |-> TRUE, error |-> msg]

\* Result the coordinator builds in its own except branch
CoordinatorResult(name, msg) ==
    [endpoint |-> name, records_processed |-> 0, errors |-> 1,
     csv_file |-> "", success |-> FALSE, error |-> msg]

EmptySummary(n) ==
    [total_endpoints |-> n, successful_endpoints |-> 0, failed_endpoints |-> 0,
     total_records |-> 0, total_errors |-> 0]

NoResult == [endpoint |-> "", records_processed |-> 0, errors |-> 0,
             csv_file |-> "", success |-> FALSE, error |-> ""]

(***************************************************************************)
(* Output sink: CSVWriter.write_records.                                   *)
(***************************************************************************)
\* How many times the file of an endpoint was opened for writing.
Writes(fs, name) == IF name \in DOMAIN fs THEN fs[name].writes ELSE 0

\* Variant: the file is opened in append mode.
WriteRecords_Append(fs, name, recs, fieldnames) ==
    (name :> [fieldnames |-> fieldnames,
              rows |-> (IF name \in DOMAIN fs THEN fs[name].rows ELSE <<>>)
                       \o recs,
              writes |-> Writes(fs, name) + 1]) @@ fs

\* open(filepath, 'w'), the header, one row per record: the file holds
\* the column list and the rows of this call, whatever it held before.
WriteRecords(fs, name, recs, fieldnames) ==
    (name :> [fieldnames |-> fieldnames, rows |-> recs,
              writes |-> Writes(fs, name) + 1]) @@ fs

\* The file a raising write_records leaves: open() failed (nothing
\* changed) or the write stopped after the file was truncated.
FailedWrites(fs, name, fieldnames) ==
    {fs, (name :> [fieldnames |-> fieldnames, rows |-> <<>>,
                   writes |-> Writes(fs, name) + 1]) @@ fs}

(***************************************************************************)
(* Initial state: a coordinator on which download_endpoints is called.     *)
(***************************************************************************)
NoError == [kind |-> "none", names |-> <<>>]
NoCall  == [fn |-> "none"]
NoRet   == [done |-> FALSE]
NoParams == [built |-> FALSE]

\* The state of a newly built coordinator, whatever the arguments.
IdleState ==
    /\ account_id = NoneId
    /\ idx = 1
    /\ results = <<>>
    /\ summary = EmptySummary(0)
    /\ actual_limit = 0
    /\ actual_batch_size = 0
    /\ offset = 0
    /\ batch_number = 0
    /\ current_batch_size = 0
    /\ all_records = <<>>
    /\ error_count = 0
    /\ attempt_number = 0
    /\ response = NoResponse
    /\ raised = NoExc
    /\ wait = 0
    /\ batch_records = <<>>
    /\ batch_errors = 0
    /\ result = NoResult
    /\ windows = <<>>
    /\ processor_account_id = ""
    /\ sink_calls = 0
    /\ files = <<>>
    /\ run = 1
    /\ account_lookups = 0
    /\ network_used = FALSE
    /\ run_error = NoError
    /\ exit_status = None
    /\ company_attempt = 0
    /\ company_lookups = 0
    /\ params = NoParams

Init ==
    /\ pc = "Start"
    /\ \/ /\ endpoint_names \in RequestedLists
          /\ limit \in LimitInputs
          /\ batch_size \in BatchInputs
          /\ TotalBatches(PyOr(limit, max_records_per_endpoint),
                          PyOr(batch_size, default_batch_size)) <= MaxWindows
       \/ /\ endpoint_names = <<"calls">>       \* the partial-failure scenario
          /\ limit = Some(250)
          /\ batch_size = Some(100)
    /\ IdleState
    /\ call = NoCall
    /\ ret = NoRet

(***************************************************************************)
(* Run coordinator: MasterDownloader.download_endpoints.                   *)
(***************************************************************************)
\* Variant: only the first invalid name is reported.
InvalidEndpoints_First ==
    LET bad == SelectSeq(endpoint_names, LAMBDA ep : ep \notin EndpointNames)
    IN  IF bad = <<>> THEN <<>> ELSE <<bad[1]>>

\* invalid_endpoints = [ep for ep in endpoint_names if ep not in available]
InvalidEndpoints ==
    SelectSeq(endpoint_names, LAMBDA ep : ep \notin EndpointNames)

\* Validation of the requested names.
Validate ==
    /\ pc = "Start"
    /\ IF InvalidEndpoints # <<>>
       THEN /\ pc' = "Raised"
            /\ run_error' = [kind |-> "Invalid endpoints",
                             names |-> InvalidEndpoints]
       ELSE /\ pc' = "Resolve"
            /\ UNCHANGED run_error
    /\ UNCHANGED <<coordVars, loopVars, retryVars, yieldVars, result, sinkVars,
                   run, account_lookups, network_used, exit_status, pureVars, companyVars>>

\* The set-up of the results structure and the entry of the for loop.
SetUp ==
    /\ pc' = IF Len(endpoint_names) = 0 THEN "Complete" ELSE "Idle"
    /\ summary' = EmptySummary(Len(endpoint_names))
    /\ results' = <<>>
    /\ idx' = 1

\* Variant: an empty identifier is accepted and the run goes on.
NoAccount_Continues ==
    /\ SetUp
    /\ UNCHANGED run_error

\* get_account_id raises ValueError("No account ID found").
NoAccount ==
    /\ pc' = "Raised"
    /\ run_error' = [kind |-> "No account ID found", names |-> <<>>]
    /\ UNCHANGED <<summary, results, idx>>

\* MasterDownloader.get_account_id when the identifier is cached.
ResolveCached ==
    /\ pc = "Resolve"
    /\ Truthy(account_id)
    /\ SetUp
    /\ UNCHANGED <<endpoint_names, limit, batch_size, account_id, loopVars,
                   retryVars, yieldVars, result, sinkVars, runVars, pureVars, companyVars>>

\* One more account lookup is counted at the first attempt of a lookup.
CountLookup == IF attempt_number = 0 THEN account_lookups + 1 ELSE account_lookups

\* The account lookup, AccountsProcessor.fetch_batch(0, 1) under the retry
\* policy: the request fails and is retried.
LookupRetries ==
    /\ pc = "Resolve"
    /\ ~Truthy(account_id)
    /\ \E resp \in Responses(1) :
         /\ MakeRequestException(resp) # NoExc
         /\ RetryIfExceptionType(MakeRequestException(resp))
         /\ ~StopAfterAttempt(attempt_number + 1)
         /\ response' = resp
         /\ attempt_number' = attempt_number + 1
         /\ wait' = WaitExponential(attempt_number + 1)
    /\ account_lookups' = CountLookup
    /\ network_used' = TRUE
    /\ UNCHANGED <<pc, coordVars, loopVars, raised, yieldVars, result, sinkVars,
                   run, run_error, exit_status, pureVars, companyVars>>

\* The account lookup is answered: the id of the first account is cached
\* ("" or no account: ValueError).
LookupReturns ==
    /\ pc = "Resolve"
    /\ ~Truthy(account_id)
    /\ \E resp \in Responses(1) :
         /\ MakeRequestException(resp) = NoExc
         /\ response' = resp
         /\ \E found \in (IF resp.n > 0 THEN {"ACC1", ""} ELSE {""}) :
              /\ account_id' = found
              /\ IF ~Truthy(found)
                 THEN NoAccount
                 ELSE SetUp /\ UNCHANGED run_error
    /\ account_lookups' = CountLookup
    /\ network_used' = TRUE
    /\ attempt_number' = 0
    /\ wait' = 0
    /\ UNCHANGED <<endpoint_names, limit, batch_size, loopVars, raised,
                   yieldVars, result, sinkVars, run, exit_status, pureVars, companyVars>>

\* The account lookup fails for good: AccountsProcessor.get_account_id
\* catches the exception and returns "", the coordinator raises.
LookupRaises ==
    /\ pc = "Resolve"
    /\ ~Truthy(account_id)
    /\ \E resp \in Responses(1) :
         /\ MakeRequestException(resp) # NoExc
         /\ \/ ~RetryIfExceptionType(MakeRequestException(resp))
            \/ StopAfterAttempt(attempt_number + 1)
         /\ response' = resp
    /\ account_id' = ""
    /\ NoAccount
    /\ account_lookups' = CountLookup
    /\ network_used' = TRUE
    /\ attempt_number' = 0
    /\ wait' = 0
    /\ UNCHANGED <<endpoint_names, limit, batch_size, loopVars, raised,
                   yieldVars, result, sinkVars, run, exit_status, pureVars, companyVars>>

\* Variant: the result of a failed endpoint is not kept.
Store_Skip(r) ==
    /\ results' = IF r.success THEN (endpoint_names[idx] :> r) @@ results
                  ELSE results
    /\ idx' = idx + 1
    /\ pc' = IF idx = Len(endpoint_names) THEN "Complete" ELSE "Idle"

\* Bookkeeping of the for loop once an endpoint result is known.
Store(r) ==
    /\ results' = (endpoint_names[idx] :> r) @@ results
    /\ idx' = idx + 1
    /\ pc' = IF idx = Len(endpoint_names) THEN "Complete" ELSE "Idle"

\* Variant: every processor is handed the account id.
ProcessorAccountId_Always(name, acc) == acc

\* create_processor: the accounts processor is built without account id.
ProcessorAccountId(name, acc) == IF name = "accounts" THEN "" ELSE acc

\* create_processor and the first lines of process_endpoint and of
\* process_in_batches, up to the first page request.
StartEndpoint ==
    /\ pc = "Idle"
    /\ processor_account_id' = ProcessorAccountId(endpoint_names[idx], account_id)
    /\ actual_limit' = PyOr(limit, max_records_per_endpoint)
    /\ actual_batch_size' = PyOr(batch_size, default_batch_size)
    /\ all_records' = <<>>
    /\ error_count' = 0
    /\ offset' = 0
    /\ batch_number' = 1
    /\ windows' = <<>>
    /\ IF MoreBatches(0, actual_limit')
       THEN /\ current_batch_size' =
                    CurrentBatchSize(actual_batch_size', actual_limit', 0)
            /\ pc' = "Fetching"
       ELSE /\ current_batch_size' = 0
            /\ pc' = "Finalizing"
    /\ attempt_number' = 0
    /\ response' = NoResponse
    /\ raised' = NoExc
    /\ wait' = 0
    /\ sink_calls' = 0
    /\ UNCHANGED <<coordVars, yieldVars, result, files, runVars, pureVars, companyVars>>

\* An exception escapes the creation or the execution of the processor:
\* the except branch of the for loop.
EndpointCrash ==
    /\ pc = "Idle"
    /\ Store(CoordinatorResult(endpoint_names[idx], "exception"))
    /\ summary' = [summary EXCEPT !.failed_endpoints = @ + 1,
                                  !.total_errors = @ + 1]
    /\ UNCHANGED <<endpoint_names, limit, batch_size, account_id, loopVars,
                   retryVars, yieldVars, result, sinkVars, runVars, pureVars, companyVars>>

(***************************************************************************)
(* Batch fetcher under the retry policy: one attempt of fetch_batch.       *)
(***************************************************************************)
\* The page request succeeds: fetch_batch returns, process_in_batches
\* yields (processed_records, 0).
AttemptReturns ==
    /\ pc = "Fetching"
    /\ \E resp \in Responses(current_batch_size) :
         /\ MakeRequestException(resp) = NoExc
         /\ response' = resp
         /\ attempt_number' = attempt_number + 1
         /\ batch_records' = PageRecords(batch_number, resp.n)
         /\ batch_errors' = 0
         /\ windows' = Append(windows, [offset |-> offset,
                                         size |-> current_batch_size,
                                         returned |-> resp.n])
    /\ pc' = "Accumulating"
    /\ network_used' = TRUE
    /\ UNCHANGED <<coordVars, actual_limit, actual_batch_size, offset,
                   batch_number, current_batch_size, all_records, error_count,
                   processor_account_id, raised, wait, result, sinkVars,
                   run, account_lookups, run_error, exit_status, pureVars, companyVars>>

\* The page request fails and the policy retries: sleep, then loop.
AttemptRetries ==
    /\ pc = "Fetching"
    /\ \E resp \in Responses(current_batch_size) :
         /\ MakeRequestException(resp) # NoExc
         /\ RetryIfExceptionType(MakeRequestException(resp))
         /\ ~StopAfterAttempt(attempt_number + 1)
         /\ response' = resp
         /\ attempt_number' = attempt_number + 1
         /\ wait' = WaitExponential(attempt_number + 1)
    /\ network_used' = TRUE
    /\ UNCHANGED <<pc, coordVars, loopVars, raised, yieldVars, result, sinkVars,
                   run, account_lookups, run_error, exit_status, pureVars, companyVars>>

\* The page request fails and the policy gives up: the exception leaves
\* fetch_batch, process_in_batches catches it and yields ([], 1).
AttemptRaises ==
    /\ pc = "Fetching"
    /\ \E resp \in Responses(current_batch_size) :
         /\ MakeRequestException(resp) # NoExc
         /\ \/ ~RetryIfExceptionType(MakeRequestException(resp))
            \/ StopAfterAttempt(attempt_number + 1)
         /\ response' = resp
         /\ attempt_number' = attempt_number + 1
         /\ raised' = Reraise(MakeRequestException(resp))
    /\ batch_records' = FailureYield.records
    /\ batch_errors' = FailureYield.errors
    /\ windows' = Append(windows, [offset |-> offset,
                                    size |-> current_batch_size,
                                    returned |-> -1])
    /\ pc' = "Accumulating"
    /\ network_used' = TRUE
    /\ UNCHANGED <<coordVars, actual_limit, actual_batch_size, offset,
                   batch_number, current_batch_size, all_records, error_count,
                   processor_account_id, wait, result, sinkVars,
                   run, account_lookups, run_error, exit_status, pureVars, companyVars>>

(***************************************************************************)
(* Endpoint orchestrator: the body of the for loop of process_endpoint,    *)
(* then the resumption of the generator up to its next page request.       *)
(***************************************************************************)
Accumulate ==
    /\ pc = "Accumulating"
    /\ error_count' = AddErrors(error_count, batch_errors)
    /\ LET extended == all_records \o batch_records
       IN IF Len(extended) >= actual_limit
          THEN \* truncate and break: the generator is not resumed
               /\ all_records' = Take(extended, actual_limit)
               /\ pc' = "Finalizing"
               /\ UNCHANGED <<offset, batch_number, current_batch_size>>
          ELSE /\ all_records' = extended
               /\ offset' = offset + current_batch_size
               /\ batch_number' = batch_number + 1
               /\ IF MoreBatches(offset', actual_limit)
                  THEN /\ current_batch_size' =
                              CurrentBatchSize(actual_batch_size, actual_limit, offset')
                       /\ pc' = "Fetching"
                  ELSE /\ UNCHANGED current_batch_size
                       /\ pc' = "Finalizing"
    /\ attempt_number' = 0
    /\ response' = NoResponse
    /\ raised' = NoExc
    /\ wait' = 0
    /\ batch_records' = <<>>
    /\ batch_errors' = 0
    /\ UNCHANGED <<coordVars, actual_limit, actual_batch_size, windows,
                   processor_account_id, result, sinkVars, runVars, pureVars, companyVars>>

\* The tail of process_endpoint: the CSV is written when records were
\* accumulated, and the result is built.
Finalize ==
    /\ pc = "Finalizing"
    /\ IF all_records # <<>>
       THEN /\ files' = WriteRecords(files, endpoint_names[idx], all_records,
                                     GetAllFields(endpoint_names[idx]))
            /\ sink_calls' = sink_calls + 1
       ELSE UNCHANGED <<files, sink_calls>>
    /\ result' = NormalResult(endpoint_names[idx], all_records, error_count,
                    IF all_records # <<>> THEN endpoint_names[idx] ELSE "")
    /\ pc' = "Done"
    /\ UNCHANGED <<coordVars, loopVars, retryVars, yieldVars, runVars, pureVars, companyVars>>

\* csv_writer.write_records raises: the except branch of process_endpoint.
FinalizeWriteFails ==
    /\ pc = "Finalizing"
    /\ all_records # <<>>
    /\ files' \in FailedWrites(files, endpoint_names[idx],
                               GetAllFields(endpoint_names[idx]))
    /\ sink_calls' = sink_calls + 1
    /\ result' = ExceptionResult(endpoint_names[idx], "write failed")
    /\ pc' = "Failed"
    /\ UNCHANGED <<coordVars, loopVars, retryVars, yieldVars, runVars, pureVars, companyVars>>

\* process_endpoint has returned: the coordinator stores the result and
\* updates the summary.
RecordResult ==
    /\ pc \in {"Done", "Failed"}
    /\ Store(result)
    /\ summary' = [summary EXCEPT
            !.successful_endpoints = IF result.success THEN @ + 1 ELSE @,
            !.failed_endpoints = IF result.success THEN @ ELSE @ + 1,
            !.total_records = @ + result.records_processed,
            !.total_errors = @ + result.errors]
    /\ result' = NoResult
    /\ actual_limit' = 0
    /\ actual_batch_size' = 0
    /\ offset' = 0
    /\ batch_number' = 0
    /\ current_batch_size' = 0
    /\ all_records' = <<>>
    /\ error_count' = 0
    /\ windows' = <<>>
    /\ processor_account_id' = ""
    /\ sink_calls' = 0
    /\ UNCHANGED <<endpoint_names, limit, batch_size, account_id,
                   retryVars, yieldVars, files, runVars, pureVars, companyVars>>

(***************************************************************************)
(* The command: the tail of main.                                          *)
(***************************************************************************)
\* Variant: a fatal error leaves the command with status 0.
ExitCode_FatalIgnored(raisedRun, failed) == IF failed > 0 THEN 1 ELSE 0

\* sys.exit(1) when endpoints failed or an exception reached main,
\* sys.exit(0) otherwise.
ExitCode(raisedRun, failed) == IF raisedRun \/ failed > 0 THEN 1 ELSE 0

Exit ==
    /\ pc \in {"Complete", "Raised"}
    /\ exit_status' = Some(ExitCode(pc = "Raised", summary.failed_endpoints))
    /\ pc' = "Exited"
    /\ UNCHANGED <<coordVars, loopVars, retryVars, yieldVars, result, sinkVars,
                   run, account_lookups, network_used, run_error, pureVars, companyVars>>

Next ==
    \/ Validate
    \/ LookupRetries
    \/ LookupReturns
    \/ LookupRaises
    \/ StartEndpoint
    \/ EndpointCrash
    \/ AttemptReturns
    \/ AttemptRetries
    \/ AttemptRaises
    \/ Accumulate
    \/ Finalize
    \/ FinalizeWriteFails
    \/ RecordResult
    \/ Exit

Spec == Init /\ [][Next]_vars

\* Runs of one endpoint in which every step that can be taken is eventually
\* taken: the single thread runs on, every transport call returns and every
\* sleep ends.
InitLive == Init /\ Len(endpoint_names) = 1

SpecLive == InitLive /\ [][Next]_vars /\ WF_vars(Next)

(***************************************************************************)
(* A coordinator that is used again: download_endpoints is called once     *)
(* more on the same MasterDownloader, against the same output directory.   *)
(***************************************************************************)
InitRerun ==
    /\ pc = "Start"
    /\ endpoint_names \in RerunLists
    /\ limit \in RerunLimits
    /\ batch_size \in RerunBatchSizes
    /\ IdleState
    /\ call = NoCall
    /\ ret = NoRet

\* The next call of download_endpoints: self.account_id and the files on
\* disk are what the earlier calls left.
NewRun ==
    /\ pc \in {"Complete", "Raised"}
    /\ run < MaxRuns
    /\ run' = run + 1
    /\ endpoint_names' \in RerunLists
    /\ limit' \in RerunLimits
    /\ batch_size' \in RerunBatchSizes
    /\ pc' = "Start"
    /\ idx' = 1
    /\ results' = <<>>
    /\ summary' = EmptySummary(0)
    /\ response' = NoResponse
    /\ network_used' = FALSE
    /\ run_error' = NoError
    /\ UNCHANGED <<account_id, loopVars, attempt_number, raised, wait,
                   yieldVars, result, sinkVars, account_lookups, exit_status,
                   pureVars, companyVars>>

NextRerun ==
    \/ Next
    \/ ResolveCached
    \/ NewRun

SpecRerun == InitRerun /\ [][NextRerun]_vars

(***************************************************************************)
(* Record extraction: extract_records_from_response of the three           *)
(* processor classes, applied to one decoded response body, and the use    *)
(* fetch_batch makes of what it returns.                                   *)
(***************************************************************************)
\* JSON values a key of the body can hold: an array of n records, null, a
\* string of n characters, an object of n keys.
JsonList(n) == [t |-> "list", n |-> n]
JsonNull    == [t |-> "null", n |-> 0]
JsonString  == [t |-> "string", n |-> 3]
JsonObject  == [t |-> "object", n |-> 1]
Values == {JsonList(n) : n \in 0..MaxItems} \cup {JsonNull, JsonString, JsonObject}

\* [data]: the body itself as the only record.
Wrapped == [t |-> "wrapped", n |-> 1]

BodyKeys == {"accounts", "calls", "users", "data", "results", "items", "id"}

\* Decoded bodies: a bare array, a mapping with at most MaxKeys of the
\* keys above, or a value that is neither (a string, a number, null).
Bodies ==
    {[kind |-> "array", v |-> JsonList(n)] : n \in 0..MaxItems}
    \cup {[kind |-> "scalar"]}
    \cup UNION {{[kind |-> "mapping", m |-> f] : f \in [ks -> Values]} :
                   ks \in {k \in SUBSET BodyKeys : Cardinality(k) <= MaxKeys}}

Has(data, key) == key \in DOMAIN data.m
IsList(v) == v.t = "list"

\* The first of the keys that holds a list, in the order given.
RECURSIVE FirstListKey(_, _)
FirstListKey(data, keys) ==
    IF keys = <<>> THEN JsonList(0)
    ELSE IF Has(data, Head(keys)) /\ IsList(data.m[Head(keys)])
         THEN data.m[Head(keys)]
         ELSE FirstListKey(data, Tail(keys))

HasListKey(data, keys) ==
    \E i \in 1..Len(keys) : Has(data, keys[i]) /\ IsList(data.m[keys[i]])

\* GenericProcessor.extract_records_from_response (and the base class's).
GenericExtract(endpoint, data) ==
    IF data.kind = "array" THEN data.v
    ELSE IF data.kind = "mapping"
         THEN IF HasListKey(data, <<endpoint, "data", "results", "items">>)
              THEN FirstListKey(data, <<endpoint, "data", "results", "items">>)
              ELSE IF Has(data, "id") THEN Wrapped ELSE JsonList(0)
         ELSE JsonList(0)

\* CallsProcessor.extract_records_from_response.
CallsExtract(data) ==
    IF data.kind = "array" THEN data.v
    ELSE IF data.kind = "mapping"
         THEN IF Has(data, "calls") THEN data.m["calls"]
              ELSE IF Has(data, "data") /\ IsList(data.m["data"])
                   THEN data.m["data"]
                   ELSE IF Has(data, "id") THEN Wrapped ELSE JsonList(0)
         ELSE JsonList(0)

\* AccountsProcessor.extract_records_from_response.
AccountsExtract(data) ==
    IF data.kind = "array" THEN data.v
    ELSE IF data.kind = "mapping"
         THEN IF Has(data, "accounts") THEN data.m["accounts"]
              ELSE IF Has(data, "id") THEN Wrapped ELSE JsonList(0)
         ELSE JsonList(0)

\* The method the processor class of an endpoint runs.
ExtractRecordsFromResponse(endpoint, data) ==
    CASE endpoint = "accounts" -> AccountsExtract(data)
      [] endpoint = "calls"    -> CallsExtract(data)
      [] OTHER                 -> GenericExtract(endpoint, data)

\* fetch_batch after the extraction: len(records) raises TypeError on
\* null; a string or an object has a length and is iterated as if its
\* characters or keys were records.
FetchBatchTail(records) ==
    IF records.t = "null"
    THEN [raises |-> TRUE, count |-> 0]
    ELSE [raises |-> FALSE, count |-> records.n]

ExtractEndpoints == {"accounts", "calls", "users"}

InitExtract ==
    /\ pc = "Pure"
    /\ endpoint_names = <<>>
    /\ limit = None
    /\ batch_size = None
    /\ IdleState
    /\ call \in {[fn |-> "extract_records_from_response", endpoint |-> e,
                  data |-> d] : e \in ExtractEndpoints, d \in Bodies}
    /\ ret = NoRet

Extract ==
    /\ pc = "Pure"
    /\ ~ret.done
    /\ LET records == ExtractRecordsFromResponse(call.endpoint, call.data)
       IN ret' = [done |-> TRUE, records |-> records,
                  batch |-> FetchBatchTail(records)]
    /\ UNCHANGED <<pc, coordVars, loopVars, retryVars, yieldVars, result,
                   sinkVars, runVars, call, companyVars>>

NextExtract == Extract

SpecExtract == InitExtract /\ [][NextExtract]_vars

(***************************************************************************)
(* Record normalisation: BaseProcessor.process_records over                *)
(* create_model_instance, applied to one batch of raw records.             *)
(***************************************************************************)
NormalizeEndpoints == {"users", "tags", "integrations"}

\* Fields without default of the dataclass MODEL_MAPPING gives an endpoint.
ModelRequired(name) ==
    CASE name = "users" ->
           {"id", "email", "first_name", "last_name", "role", "created_at",
            "updated_at"}
      [] name = "tags" ->
           {"id", "name", "tag_level", "color", "background_color",
            "created_at", "updated_at"}
      [] name = "integrations" ->
           {"id", "name", "state", "created_at", "updated_at"}
      [] OTHER -> {}

\* Fields with default None of that dataclass.
ModelOptional(name) ==
    CASE name = "users" -> {"avatar_url", "is_account_admin"}
      [] name = "tags" -> {"company_id"}
      [] name = "integrations" -> {"integration_data"}
      [] OTHER -> {}

\* model_class.__dataclass_fields__
ModelFields(name) == ModelRequired(name) \cup ModelOptional(name)

\* Keys a raw record may carry besides the required ones: a field the
\* dataclass defaults, a field only the catalog declares, an unknown key.
ExtraKeys(name) ==
    CASE name = "users" -> {"avatar_url", "name", "undeclared_key"}
      [] name = "tags" -> {"company_id", "status", "undeclared_key"}
      [] name = "integrations" -> {"integration_data", "config", "undeclared_key"}
      [] OTHER -> {}

\* Shapes of one raw record: a mapping with all the required fields, with
\* one of them missing or with the id only, plus any of the extra keys; or
\* a value that is no mapping (a string).
RawShapes(name) ==
    {[kind |-> "mapping", keys |-> base \cup extra] :
        base \in {ModelRequired(name), ModelRequired(name) \ {"updated_at"},
                  {"id"}},
        extra \in SUBSET ExtraKeys(name)}
    \cup {[kind |-> "string", keys |-> {}]}

\* A raw record: its shape, no defaulted field, and the position it came
\* at (standing for its values).
RawRecord(shape, i) ==
    [kind |-> shape.kind, keys |-> shape.keys, defaulted |-> {}, v |-> i]

RawBatches(name) ==
    UNION {{[i \in 1..n |-> RawRecord(f[i], i)] : f \in [1..n -> RawShapes(name)]} :
              n \in 0..MaxRecords}

\* create_model_instance: the keys the dataclass knows are kept and the
\* dataclass is built from them, so the fields left out get their default;
\* a missing required field (TypeError) or a record that is no mapping
\* (AttributeError) gives back the raw data.
CreateModelInstance(name, data) ==
    IF data.kind # "mapping" THEN data
    ELSE LET filtered == data.keys \cap ModelFields(name)
         IN  IF ModelRequired(name) \subseteq filtered
             THEN [kind |-> "instance", keys |-> ModelFields(name),
                   defaulted |-> ModelFields(name) \ filtered, v |-> data.v]
             ELSE data

\* The body of the loop of process_records: an instance is replaced by its
\* __dict__, anything else is appended as it is.
ProcessRecord(name, record) ==
    LET processed == CreateModelInstance(name, record)
    IN  IF processed.kind = "instance"
        THEN [processed EXCEPT !.kind = "mapping"]
        ELSE processed

\* Variant: a record that could not be normalised is left out.
ProcessRecords_DropFailed(name, records) ==
    SelectSeq([i \in 1..Len(records) |-> ProcessRecord(name, records[i])],
              LAMBDA r : r.defaulted # {} \/ r.keys = ModelFields(name))

\* BaseProcessor.process_records
ProcessRecords(name, records) ==
    [i \in 1..Len(records) |-> ProcessRecord(name, records[i])]

InitNormalize ==
    /\ pc = "Pure"
    /\ endpoint_names = <<>>
    /\ limit = None
    /\ batch_size = None
    /\ IdleState
    /\ call \in UNION {{[fn |-> "process_records", endpoint |-> e, records |-> b] :
                          b \in RawBatches(e)} : e \in NormalizeEndpoints}
    /\ ret = NoRet

Normalize ==
    /\ pc = "Pure"
    /\ ~ret.done
    /\ ret' = [done |-> TRUE,
               records |-> ProcessRecords(call.endpoint, call.records)]
    /\ UNCHANGED <<pc, coordVars, loopVars, retryVars, yieldVars, result,
                   sinkVars, runVars, call, companyVars>>

NextNormalize == Normalize

SpecNormalize == InitNormalize /\ [][NextNormalize]_vars

(***************************************************************************)
(* Backoff: the wait the retry decorator sleeps between two attempts, for  *)
(* a RetryConfig and a value of the random source.                         *)
(***************************************************************************)
\* Values of RetryConfig.base_delay, max_delay and exponential_base (the
\* defaults and another value each), and of the jitter factor
\* 0.5 + random.random() * 0.5 the random source gives, in percent.
BaseDelays       == {base_delay, 2}
MaxDelays        == {max_delay, 5}
ExponentialBases == {exponential_base, 3}
RandomPercents   == {50, 75, 99}

\* The wait the decorator of get_retry_decorator sleeps after failed
\* attempt number `attempt`: wait_exponential alone; the decorator is not
\* given RetryConfig.jitter and draws nothing from the random source.
DecoratorWait(config, attempt, random) ==
    WaitExponentialWith(config.base_delay, config.max_delay,
                        config.exponential_base, attempt)

InitBackoff ==
    /\ pc = "Pure"
    /\ endpoint_names = <<>>
    /\ limit = None
    /\ batch_size = None
    /\ IdleState
    /\ call \in {[fn |-> "wait", attempt |-> n, random |-> r,
                  config |-> [base_delay |-> b, max_delay |-> m,
                              exponential_base |-> x, jitter |-> j]] :
                    n \in 1..MaxAttemptNumber, r \in RandomPercents,
                    b \in BaseDelays, m \in MaxDelays, x \in ExponentialBases,
                    j \in BOOLEAN}
    /\ ret = NoRet

Backoff ==
    /\ pc = "Pure"
    /\ ~ret.done
    /\ ret' = [done |-> TRUE,
               computed |-> WaitExponentialWith(call.config.base_delay,
                               call.config.max_delay,
                               call.config.exponential_base, call.attempt),
               slept |-> DecoratorWait(call.config, call.attempt, call.random)]
    /\ UNCHANGED <<pc, coordVars, loopVars, retryVars, yieldVars, result,
                   sinkVars, runVars, call, companyVars>>

NextBackoff == Backoff

SpecBackoff == InitBackoff /\ [][NextBackoff]_vars

(***************************************************************************)
(* Request parameters: build_request_params of the base class and of       *)
(* CallsProcessor, for one window (offset, limit) of an endpoint that is   *)
(* not company-scoped.                                                     *)
(***************************************************************************)
ParamEndpoints == {"users", "tags", "calls"}

\* EndpointConfig.pagination_type
PaginationType(name) == IF name = "calls" THEN "relative" ELSE "offset"

\* Endpoints whose request carries no field selection.
SkipFields == {"tags", "text_messages", "outbound_caller_ids"}

\* Variant: the page is counted from 0.
BasePage_ZeroBased(off, size) == off \div size

\* params['page'] = (offset // limit) + 1
BasePage(off, size) == (off \div size) + 1

\* BaseProcessor.build_request_params
BaseBuildRequestParams(name, off, size) ==
    [page |-> IF PaginationType(name) = "offset" \/ off > 0
              THEN Some(BasePage(off, size)) ELSE None,
     per_page |-> Min(size, max_per_page),
     fields |-> IF name \in SkipFields THEN <<>> ELSE GetAllFields(name)]

\* Variant: the calls processor keeps the parameters of the base class.
CallsBuildRequestParams_Inherited(off, size) ==
    BaseBuildRequestParams("calls", off, size)

\* CallsProcessor.build_request_params: the parameters of the base class
\* are replaced when the pagination is relative.
CallsBuildRequestParams(off, size) ==
    IF PaginationType("calls") = "relative"
    THEN [page |-> None,
          per_page |-> Min(size, max_per_page),
          fields |-> Fields("calls") \o OptionalFields("calls")]
    ELSE BaseBuildRequestParams("calls", off, size)

BuildRequestParams(name, off, size) ==
    IF name = "calls" THEN CallsBuildRequestParams(off, size)
    ELSE BaseBuildRequestParams(name, off, size)

\* Windows the parameters are built for: small ones, and sizes around the
\* default batch size and the page size cap.
WindowSizes   == 1..MaxSize \cup {default_batch_size, max_per_page, max_per_page + 1}
WindowOffsets == 0..MaxOffset \cup {default_batch_size, max_per_page, 2 * max_per_page}

InitParams ==
    /\ pc = "Pure"
    /\ endpoint_names = <<>>
    /\ limit = None
    /\ batch_size = None
    /\ IdleState
    /\ call \in {[fn |-> "build_request_params", endpoint |-> e,
                  offset |-> o, size |-> z] :
                    e \in ParamEndpoints, o \in WindowOffsets, z \in WindowSizes}
    /\ ret = NoRet

BuildParams ==
    /\ pc = "Pure"
    /\ ~ret.done
    /\ ret' = [done |-> TRUE,
               params |-> BuildRequestParams(call.endpoint, call.offset, call.size)]
    /\ UNCHANGED <<pc, coordVars, loopVars, retryVars, yieldVars, result,
                   sinkVars, runVars, call, companyVars>>

NextParams == BuildParams

SpecParams == InitParams /\ [][NextParams]_vars

(***************************************************************************)
(* The requests of one endpoint run: the windows process_in_batches        *)
(* generates for (limit, batch_size) when no page reaches the limit early, *)
(* and the parameters fetch_batch builds for each of them.                 *)
(***************************************************************************)
\* The windows generated from offset `off` on.
RECURSIVE WindowsFrom(_, _, _)
WindowsFrom(off, lim, bs) ==
    IF MoreBatches(off, lim)
    THEN <<[offset |-> off, size |-> CurrentBatchSize(bs, lim, off)]>>
         \o WindowsFrom(off + CurrentBatchSize(bs, lim, off), lim, bs)
    ELSE <<>>

\* The request parameters of the successive windows.
WindowRequests(name, lim, bs) ==
    LET w == WindowsFrom(0, lim, bs)
    IN [k \in 1..Len(w) |-> BuildRequestParams(name, w[k].offset, w[k].size)]

\* Limits and batch sizes of the runs: small ones, and sizes around the
\* default batch size and the page size cap.
RunLimits  == 1..MaxLimit \cup {max_per_page, max_per_page + 1, 500, 600}
RunBatches == 1..(MaxBatch + 1) \cup {default_batch_size, max_per_page, 300}

InitWindows ==
    /\ pc = "Pure"
    /\ endpoint_names = <<>>
    /\ limit = None
    /\ batch_size = None
    /\ IdleState
    /\ call \in {c \in [fn : {"process_in_batches"}, endpoint : ParamEndpoints,
                        limit : RunLimits, batch_size : RunBatches] :
                    TotalBatches(c.limit, c.batch_size) <= MaxWindows + 2}
    /\ ret = NoRet

ProcessInBatches ==
    /\ pc = "Pure"
    /\ ~ret.done
    /\ ret' = [done |-> TRUE,
               windows |-> WindowsFrom(0, call.limit, call.batch_size),
               requests |-> WindowRequests(call.endpoint, call.limit,
                                           call.batch_size)]
    /\ UNCHANGED <<pc, coordVars, loopVars, retryVars, yieldVars, result,
                   sinkVars, runVars, call, companyVars>>

NextWindows == ProcessInBatches

SpecWindows == InitWindows /\ [][NextWindows]_vars

(***************************************************************************)
(* Company-scoped endpoints: build_request_params calls get_company_id,    *)
(* which fetches the first company through a CompaniesProcessor, at every  *)
(* call of fetch_batch, before the page request is sent.                   *)
(***************************************************************************)
\* EndpointConfig.requires_company_id
RequiresCompanyId(name) == name \in {"integrations", "outbound_caller_ids"}

\* The companies of the account, in the order the remote lists them.
CompanyIds == <<"COM1", "COM2">>

\* Records the companies processor extracts from a 200 answer of n companies.
Companies(n) == [i \in 1..n |-> [id |-> CompanyIds[i]]]

\* Variant: the id of the last company listed is taken.
GetCompanyId_Last(companies) ==
    IF Len(companies) > 0 THEN Some(companies[Len(companies)].id) ELSE None

\* get_company_id once fetch_batch(0, 1) has returned.
GetCompanyId(companies) ==
    IF Len(companies) > 0 THEN Some(companies[1].id) ELSE None

\* build_request_params of a company-scoped endpoint: the pagination and
\* field parameters, and company_id when get_company_id returned one
\* (None: the key is absent).
CompanyScopedParams(name, off, size, company_id) ==
    LET base == BuildRequestParams(name, off, size)
    IN [built |-> TRUE,
        page |-> base.page,
        per_page |-> base.per_page,
        fields |-> base.fields,
        company_id |-> company_id]

\* Requested runs of company-scoped endpoints: one endpoint in two windows,
\* two endpoints in one window each.
CompanyRuns ==
    {[names |-> <<"integrations">>, limit |-> Some(2), batch_size |-> Some(1)],
     [names |-> <<"outbound_caller_ids">>, limit |-> Some(2), batch_size |-> Some(1)],
     [names |-> <<"integrations", "outbound_caller_ids">>,
      limit |-> Some(1), batch_size |-> Some(1)]}

InitCompany ==
    /\ pc = "Start"
    /\ \E r \in CompanyRuns :
         /\ endpoint_names = r.names
         /\ limit = r.limit
         /\ batch_size = r.batch_size
    /\ IdleState
    /\ call = NoCall
    /\ ret = NoRet

\* The company lookup request fails and the retry policy of the companies
\* processor's fetch_batch retries it.
CompanyLookupRetries ==
    /\ pc = "Fetching"
    /\ RequiresCompanyId(endpoint_names[idx])
    /\ \E resp \in Responses(1) :
         /\ MakeRequestException(resp) # NoExc
         /\ RetryIfExceptionType(MakeRequestException(resp))
         /\ ~StopAfterAttempt(company_attempt + 1)
         /\ response' = resp
         /\ wait' = WaitExponential(company_attempt + 1)
    /\ company_attempt' = company_attempt + 1
    /\ company_lookups' = company_lookups + 1
    /\ UNCHANGED <<pc, coordVars, loopVars, attempt_number, raised, yieldVars,
                   result, sinkVars, runVars, pureVars, params>>

\* The company lookup is answered: the id of the first company, if any, is
\* attached and build_request_params returns.
CompanyLookupReturns ==
    /\ pc = "Fetching"
    /\ RequiresCompanyId(endpoint_names[idx])
    /\ \E resp \in Responses(1) :
         /\ MakeRequestException(resp) = NoExc
         /\ response' = resp
         /\ params' = CompanyScopedParams(endpoint_names[idx], offset,
                         current_batch_size, GetCompanyId(Companies(resp.n)))
    /\ company_attempt' = 0
    /\ company_lookups' = company_lookups + 1
    /\ pc' = "Requesting"
    /\ UNCHANGED <<coordVars, loopVars, attempt_number, raised, wait, yieldVars,
                   result, sinkVars, runVars, pureVars>>

\* The company lookup fails for good: get_company_id catches the exception
\* and returns None, build_request_params returns without company_id.
CompanyLookupRaises ==
    /\ pc = "Fetching"
    /\ RequiresCompanyId(endpoint_names[idx])
    /\ \E resp \in Responses(1) :
         /\ MakeRequestException(resp) # NoExc
         /\ \/ ~RetryIfExceptionType(MakeRequestException(resp))
            \/ StopAfterAttempt(company_attempt + 1)
         /\ response' = resp
    /\ params' = CompanyScopedParams(endpoint_names[idx], offset,
                                     current_batch_size, None)
    /\ company_attempt' = 0
    /\ company_lookups' = company_lookups + 1
    /\ pc' = "Requesting"
    /\ UNCHANGED <<coordVars, loopVars, attempt_number, raised, wait, yieldVars,
                   result, sinkVars, runVars, pureVars>>

\* The page request, sent with the parameters built, succeeds.
PageReturns ==
    /\ pc = "Requesting"
    /\ \E resp \in Responses(current_batch_size) :
         /\ MakeRequestException(resp) = NoExc
         /\ response' = resp
         /\ attempt_number' = attempt_number + 1
         /\ batch_records' = PageRecords(batch_number, resp.n)
         /\ batch_errors' = 0
         /\ windows' = Append(windows, [offset |-> offset,
                                         size |-> current_batch_size,
                                         returned |-> resp.n])
    /\ pc' = "Accumulating"
    /\ network_used' = TRUE
    /\ UNCHANGED <<coordVars, actual_limit, actual_batch_size, offset,
                   batch_number, current_batch_size, all_records, error_count,
                   processor_account_id, raised, wait, result, sinkVars,
                   run, account_lookups, run_error, exit_status, pureVars,
                   companyVars>>

\* The page request fails and the policy retries: fetch_batch is called
\* again and builds its parameters again.
PageRetries ==
    /\ pc = "Requesting"
    /\ \E resp \in Responses(current_batch_size) :
         /\ MakeRequestException(resp) # NoExc
         /\ RetryIfExceptionType(MakeRequestException(resp))
         /\ ~StopAfterAttempt(attempt_number + 1)
         /\ response' = resp
         /\ attempt_number' = attempt_number + 1
         /\ wait' = WaitExponential(attempt_number + 1)
    /\ params' = NoParams
    /\ pc' = "Fetching"
    /\ network_used' = TRUE
    /\ UNCHANGED <<coordVars, loopVars, raised, yieldVars, result, sinkVars,
                   run, account_lookups, run_error, exit_status, pureVars,
                   company_attempt, company_lookups>>

\* The page request fails and the policy gives up: the window fails.
PageRaises ==
    /\ pc = "Requesting"
    /\ \E resp \in Responses(current_batch_size) :
         /\ MakeRequestException(resp) # NoExc
         /\ \/ ~RetryIfExceptionType(MakeRequestException(resp))
            \/ StopAfterAttempt(attempt_number + 1)
         /\ response' = resp
         /\ attempt_number' = attempt_number + 1
         /\ raised' = Reraise(MakeRequestException(resp))
    /\ batch_records' = FailureYield.records
    /\ batch_errors' = FailureYield.errors
    /\ windows' = Append(windows, [offset |-> offset,
                                    size |-> current_batch_size,
                                    returned |-> -1])
    /\ pc' = "Accumulating"
    /\ network_used' = TRUE
    /\ UNCHANGED <<coordVars, actual_limit, actual_batch_size, offset,
                   batch_number, current_batch_size, all_records, error_count,
                   processor_account_id, wait, result, sinkVars,
                   run, account_lookups, run_error, exit_status, pureVars,
                   companyVars>>

NextCompany ==
    \/ Validate
    \/ LookupRetries
    \/ LookupReturns
    \/ LookupRaises
    \/ StartEndpoint
    \/ CompanyLookupRetries
    \/ CompanyLookupReturns
    \/ CompanyLookupRaises
    \/ PageReturns
    \/ PageRetries
    \/ PageRaises
    \/ Accumulate
    \/ Finalize
    \/ FinalizeWriteFails
    \/ RecordResult

SpecCompany == InitCompany /\ [][NextCompany]_vars

(***************************************************************************)
(* Type invariant.                                                         *)
(***************************************************************************)
TypeOK ==
    /\ pc \in {"Start", "Resolve", "Idle", "Fetching", "Accumulating",
               "Finalizing", "Done", "Failed", "Complete", "Raised", "Exited",
               "Pure", "Requesting"}
    /\ attempt_number \in 0..max_attempts
    /\ error_count \in Nat
    /\ offset \in Nat
    /\ sink_calls \in 0..1
    /\ run \in 1..MaxRuns
    /\ account_lookups \in 0..MaxRuns
    /\ account_id \in {NoneId, "", "ACC1"}
    /\ processor_account_id \in {"", "ACC1"}
    /\ network_used \in BOOLEAN
    /\ exit_status \in {None, Some(0), Some(1)}
    /\ DOMAIN files \subseteq EndpointNames
    /\ DOMAIN results \subseteq EndpointNames

(***************************************************************************)
(* Vocabulary of the properties.                                           *)
(***************************************************************************)
\* process_endpoint has returned and its result is not stored yet.
Returned == pc \in {"Done", "Failed"}

\* Transport failures the design classifies as retryable by status.
RetryableStatus(resp) ==
    resp.kind = "http" /\ (resp.status = 429 \/ resp.status >= 500)

\* Transport failures the design classifies as non-retryable or unknown.
PermanentStatus(resp) ==
    resp.kind = "http" /\ resp.status \in {400, 401, 403, 404, 302}

\* The step is one attempt of the running page fetch.
AttemptStep == pc = "Fetching" /\ attempt_number' = attempt_number + 1

WindowFailed(w) == w.returned = -1

AllWindowsFailed ==
    windows # <<>> /\ \A i \in 1..Len(windows) : WindowFailed(windows[i])

NumFailedWindows == Cardinality({i \in 1..Len(windows) : WindowFailed(windows[i])})

RECURSIVE SumSuccessfulSizes(_)
SumSuccessfulSizes(log) ==
    IF log = <<>> THEN 0
    ELSE (IF WindowFailed(Head(log)) THEN 0 ELSE Head(log).size)
         + SumSuccessfulSizes(Tail(log))

\* Every successful window returned exactly as many records as its size.
ExactPages ==
    \A i \in 1..Len(windows) :
        WindowFailed(windows[i]) \/ windows[i].returned = windows[i].size

\* Index of the first failed window of the log.
FirstFailedWindow ==
    CHOOSE i \in 1..Len(windows) :
        WindowFailed(windows[i]) /\ \A j \in 1..(i - 1) : ~WindowFailed(windows[j])

(***************************************************************************)
(* C1. The records_processed of a returned endpoint result is never        *)
(* greater than the limit the caller requested.                            *)
(***************************************************************************)
C1_RecordsWithinRequestedLimit ==
    (Returned /\ limit # None) => result.records_processed <= limit[1]

\* What the code does guarantee: the cap is the effective limit.
RecordsWithinActualLimit ==
    Returned => result.records_processed <= actual_limit

(***************************************************************************)
(* C2. Every endpoint result of the result mapping, and every result       *)
(* process_endpoint returns, has success = (records_processed > 0 or       *)
(* errors == 0).                                                           *)
(***************************************************************************)
C2_SuccessDefinition ==
    /\ \A n \in DOMAIN results :
          results[n].success
            = (results[n].records_processed > 0 \/ results[n].errors = 0)
    /\ Returned =>
          result.success = (result.records_processed > 0 \/ result.errors = 0)

\* A finished run holding a normal-path result with records and errors
\* next to a result of an except branch.
C2_Witness ==
    /\ pc = "Complete"
    /\ \E n, m \in DOMAIN results :
          /\ results[n].error = ""
          /\ results[n].records_processed > 0
          /\ results[n].errors > 0
          /\ results[m].error # ""

(***************************************************************************)
(* C3. A failed window fetch is caught inside the endpoint run: the window *)
(* yields no record and one error, the accumulator keeps its records, the  *)
(* error count grows by exactly one, and the next window is fetched when   *)
(* the new offset is below the limit; the run does not abort.              *)
(***************************************************************************)
C3_WindowFailureIsolated ==
    [][ /\ (pc = "Fetching" /\ raised' # NoExc) =>
              /\ pc' = "Accumulating"
              /\ batch_records' = <<>>
              /\ batch_errors' = 1
        /\ (pc = "Accumulating" /\ raised # NoExc) =>
              /\ all_records' = all_records
              /\ error_count' = error_count + 1
              /\ pc' \in {"Fetching", "Finalizing"}
              /\ (offset + current_batch_size < actual_limit) =>
                    /\ pc' = "Fetching"
                    /\ batch_number' = batch_number + 1
                    /\ offset' = offset + current_batch_size
      ]_vars

\* Window 1 failed and window 2 is being fetched.
C3_Witness ==
    /\ pc = "Fetching"
    /\ batch_number = 2
    /\ error_count = 1
    /\ WindowFailed(windows[1])

(***************************************************************************)
(* C4. When an endpoint run returns its result and every successful window *)
(* returned exactly the number of records of its size, records_processed   *)
(* is the sum of the sizes of the successful windows and errors is the     *)
(* number of failed windows.                                               *)
(***************************************************************************)
C4_ExactPagesAccounting ==
    (pc = "Done" /\ ExactPages) =>
        /\ result.records_processed = SumSuccessfulSizes(windows)
        /\ result.errors = NumFailedWindows

\* limit=250, batch_size=100, only window 2 fails: 150 records, 1 error.
C4_Witness ==
    /\ pc = "Done"
    /\ limit = Some(250)
    /\ batch_size = Some(100)
    /\ Len(windows) = 3
    /\ windows[1].returned = 100
    /\ WindowFailed(windows[2])
    /\ windows[3].returned = 50
    /\ result.records_processed = 150
    /\ result.errors = 1
    /\ result.success

(***************************************************************************)
(* C5. If every batch of an endpoint fails, the result has                 *)
(* records_processed = 0, success = false, and errors equal to the number  *)
(* of batches attempted up to and including the first failure.             *)
(***************************************************************************)
C5_ErrorsUpToFirstFailure ==
    (pc = "Done" /\ AllWindowsFailed) =>
        /\ result.records_processed = 0
        /\ result.errors = FirstFailedWindow
        /\ ~result.success

\* C5 as amended: if every batch of an endpoint fails, the result has
\* records_processed = 0, success = false, and errors equal to the number
\* of all the batches of the run, ceil(limit / batch_size).
C5_ErrorsCountEveryBatch ==
    (pc = "Done" /\ AllWindowsFailed) =>
        /\ result.records_processed = 0
        /\ result.errors = Len(windows)
        /\ result.errors = TotalBatches(actual_limit, actual_batch_size)
        /\ ~result.success

\* A run of three windows that all failed.
C5_Witness ==
    /\ pc = "Done"
    /\ AllWindowsFailed
    /\ Len(windows) = 3
    /\ result.errors = 3

(***************************************************************************)
(* C6. With an attempt bound of 3, after retryable errors on attempts 1    *)
(* and 2 the fetch is attempted a third time, and when attempt 3 succeeds  *)
(* its page is returned to the caller, 3 attempts having been made.        *)
(***************************************************************************)
C6_ThirdAttemptSucceeds ==
    [][ /\ (AttemptStep /\ attempt_number = 1 /\ RetryableStatus(response)
                        /\ RetryableStatus(response')) =>
              pc' = "Fetching"
        /\ (AttemptStep /\ attempt_number = 2 /\ response'.status = 200) =>
              /\ pc' = "Accumulating"
              /\ attempt_number' = 3
              /\ raised' = NoExc
              /\ batch_errors' = 0
              /\ batch_records' = PageRecords(batch_number, response'.n)
      ]_vars

\* The third attempt returned a non-empty page.
C6_Witness ==
    /\ pc = "Accumulating"
    /\ attempt_number = 3
    /\ response.status = 200
    /\ response.n > 0
    /\ Len(batch_records) = response.n
    /\ batch_errors = 0

(***************************************************************************)
(* C7. A page fetch answered with an authentication failure, a not-found,  *)
(* a validation error or an unexpected status is not attempted again: the  *)
(* error reaches the caller at once, without any wait.                     *)
(***************************************************************************)
C7_PermanentErrorsNotRetried ==
    [][ (AttemptStep /\ PermanentStatus(response')) =>
            /\ pc' = "Accumulating"
            /\ raised' # NoExc
            /\ raised'.status_code = response'.status
            /\ wait' = wait
            /\ batch_errors' = 1
            /\ (attempt_number = 0 => attempt_number' = 1 /\ wait' = 0)
      ]_vars

\* A 404 on the first attempt ended the fetch.
C7_Witness ==
    /\ pc = "Accumulating"
    /\ attempt_number = 1
    /\ response.status = 404
    /\ raised.cls = "NotFoundError"
    /\ wait = 0

(***************************************************************************)
(* C8. A connection or timeout failure during a page fetch is retried like *)
(* a rate-limit or server error: below the attempt bound the fetch is      *)
(* attempted again after a wait.                                           *)
(***************************************************************************)
C8_ConnectionFailureRetried ==
    [][ (AttemptStep /\ response'.kind = "conn"
                     /\ attempt_number' < max_attempts) =>
            /\ pc' = "Fetching"
            /\ wait' > 0
      ]_vars

(***************************************************************************)
(* C9. One page fetch is attempted at most max_attempts times, and when    *)
(* the last allowed attempt fails with a retryable error, that error       *)
(* itself reaches the caller.                                              *)
(***************************************************************************)
C9_BoundedAttemptsLastErrorRaised ==
    /\ attempt_number <= max_attempts
    /\ (pc = "Accumulating" /\ attempt_number = max_attempts
                            /\ RetryableStatus(response)) =>
          /\ raised.cls = (IF response.status = 429 THEN "RateLimitError"
                                                    ELSE "ServerError")
          /\ raised.status_code = response.status
          /\ batch_errors = 1
          /\ batch_records = <<>>

\* The third attempt failed with a server error, which was raised.
C9_Witness ==
    /\ pc = "Accumulating"
    /\ attempt_number = max_attempts
    /\ response.status = 500
    /\ raised = [cls |-> "ServerError", status_code |-> 500]

(***************************************************************************)
(* C10. After a rate-limit answer that carries a retry-after duration, the *)
(* wait before the next attempt is that duration.                          *)
(***************************************************************************)
C10_RetryAfterOverridesBackoff ==
    [][ (AttemptStep /\ pc' = "Fetching" /\ response'.status = 429
                     /\ response'.retry_after > 0) =>
            wait' = response'.retry_after
      ]_vars

(***************************************************************************)
(* Run coordinator: validation, account scope, result mapping, exit code.  *)
(***************************************************************************)
\* The requested names the catalog does not hold.
UnknownNames == {endpoint_names[i] : i \in 1..Len(endpoint_names)} \ EndpointNames

\* C11: when the requested list holds names that are not in the catalog,
\* download_endpoints fails with a configuration error that names every
\* invalid name (and only those), before any transport call and without
\* creating any endpoint result.
C11_InvalidNamesRejectedTogether ==
    (UnknownNames # {} /\ pc # "Start") =>
        /\ pc \in {"Raised", "Exited"}
        /\ run_error.kind = "Invalid endpoints"
        /\ {run_error.names[i] : i \in 1..Len(run_error.names)} = UnknownNames
        /\ ~network_used
        /\ account_lookups = 0
        /\ account_id = NoneId
        /\ results = <<>>

\* A list with two invalid names around a valid one was rejected.
C11_Witness ==
    /\ pc = "Raised"
    /\ endpoint_names = <<"nope", "calls", "bogus_endpoint">>
    /\ run_error.names = <<"nope", "bogus_endpoint">>

\* No endpoint orchestrator was started and no result structure was built.
NothingStarted ==
    /\ results = <<>>
    /\ summary = EmptySummary(0)
    /\ idx = 1
    /\ windows = <<>>
    /\ batch_number = 0
    /\ result = NoResult
    /\ sink_calls = 0
    /\ files = <<>>

\* C12: when the account scope cannot be resolved (the lookup fails for
\* good, or answers with no account or no identifier), download_endpoints
\* raises: no orchestrator is started, no summary is produced, and the
\* process exits with status 1.
C12_UnresolvedAccountIsFatal ==
    /\ [][(pc = "Resolve" /\ pc' # "Resolve" /\ ~Truthy(account_id')) =>
              (pc' = "Raised" /\ run_error'.kind = "No account ID found")]_vars
    /\ [](run_error.kind = "No account ID found" =>
              /\ pc \in {"Raised", "Exited"}
              /\ NothingStarted
              /\ (pc = "Exited" => exit_status = Some(1)))

\* The lookup was refused (a status that is not retried) and the process
\* has exited.
C12_Witness ==
    /\ pc = "Exited"
    /\ run_error.kind = "No account ID found"
    /\ response.status = 401
    /\ exit_status = Some(1)

\* A step in which an exception escaped the processor of the current
\* endpoint: the loop moves on without process_endpoint having returned.
CrashStep == pc = "Idle" /\ idx' = idx + 1

\* C13: when an exception escapes the creation or the execution of an
\* endpoint's orchestrator, the coordinator records for that endpoint
\* records_processed = 0, errors = 1, success = false, counts it as
\* failed, and goes on with the next requested endpoint if there is one.
C13_CrashedEndpointIsolated ==
    [][CrashStep =>
          LET name == endpoint_names[idx] IN
          /\ name \in DOMAIN results'
          /\ results'[name].records_processed = 0
          /\ results'[name].errors = 1
          /\ results'[name].success = FALSE
          /\ \A other \in DOMAIN results \ {name} :
                results'[other] = results[other]
          /\ summary'.failed_endpoints = summary.failed_endpoints + 1
          /\ summary'.total_errors = summary.total_errors + 1
          /\ pc' = (IF idx < Len(endpoint_names) THEN "Idle" ELSE "Complete")
          /\ account_id' = account_id
      ]_vars

\* The first of two endpoints crashed and the second one delivered records.
C13_Witness ==
    /\ pc = "Complete"
    /\ Len(endpoint_names) = 2
    /\ results[endpoint_names[1]].error = "exception"
    /\ results[endpoint_names[2]].success
    /\ results[endpoint_names[2]].records_processed > 0

\* C14: for every valid requested list whose account scope was resolved,
\* the finished run reports total_endpoints equal to the length of the
\* list and holds exactly one result per requested name, whatever failed.
C14_OneResultPerRequestedName ==
    pc = "Complete" =>
        /\ summary.total_endpoints = Len(endpoint_names)
        /\ DOMAIN results = {endpoint_names[i] : i \in 1..Len(endpoint_names)}
        /\ \A i \in 1..Len(endpoint_names) :
              results[endpoint_names[i]].endpoint = endpoint_names[i]
        /\ summary.successful_endpoints + summary.failed_endpoints
               = Len(endpoint_names)

\* Both endpoints of a two-name list failed, one by a crash and one with
\* every batch failing, and both have their result.
C14_Witness ==
    /\ pc = "Complete"
    /\ Len(endpoint_names) = 2
    /\ summary.failed_endpoints = 2
    /\ results[endpoint_names[1]].error = "exception"
    /\ results[endpoint_names[2]].error = ""

\* C15 as stated: the exit status is non-zero if and only if
\* failed_endpoints > 0.
C15_ExitNonZeroIffFailedEndpoints ==
    exit_status # None =>
        (exit_status # Some(0) <=> summary.failed_endpoints > 0)

\* C15 as amended: the exit status is non-zero if and only if some
\* endpoint failed or the run was aborted by a fatal error (invalid
\* endpoint names, account scope not resolved), in which case no summary
\* exists.
C15_ExitNonZeroIffFailedOrFatal ==
    exit_status # None =>
        /\ exit_status \in {Some(0), Some(1)}
        /\ exit_status # Some(0) <=>
               (summary.failed_endpoints > 0 \/ run_error # NoError)
        /\ run_error # NoError => summary = EmptySummary(0)

\* The command exited with 1 on an invalid endpoint name, with no failed
\* endpoint.
C15_Witness ==
    /\ pc = "Exited"
    /\ exit_status = Some(1)
    /\ run_error.kind = "Invalid endpoints"
    /\ summary.failed_endpoints = 0

\* An orchestrator of the current endpoint exists.
EndpointRunning ==
    pc \in {"Fetching", "Accumulating", "Finalizing", "Done", "Failed"}

\* C16 as stated: the account scope is looked up at most once per
\* coordinator, and every endpoint orchestrator is constructed with the
\* resolved identifier.
C16_AccountResolvedAtMostOnce ==
    /\ account_lookups <= 1
    /\ EndpointRunning => processor_account_id = account_id

\* C16 as amended: once the account scope is resolved it is never looked
\* up again, by a later endpoint or by a later run; a run performs at most
\* one lookup; every orchestrator except the accounts one is constructed
\* with the cached identifier, and the accounts orchestrator without one.
C16_ResolvedScopeReused ==
    /\ [][Truthy(account_id) =>
             (account_id' = account_id /\ account_lookups' = account_lookups)
         ]_vars
    /\ [](account_lookups <= run)
    /\ [](Truthy(account_id) => account_lookups >= 1)
    /\ [](EndpointRunning =>
              /\ Truthy(account_id)
              /\ processor_account_id =
                    (IF endpoint_names[idx] = "accounts" THEN "" ELSE account_id))

\* The second run on a coordinator fetches calls with the identifier the
\* first run's only lookup cached.
C16_Witness ==
    /\ run = 2
    /\ account_lookups = 1
    /\ pc = "Fetching"
    /\ endpoint_names[idx] = "calls"
    /\ processor_account_id = "ACC1"
    /\ account_id = "ACC1"

(***************************************************************************)
(* Output sink.                                                            *)
(***************************************************************************)
\* The records of the first k windows of the log, in window order.
RECURSIVE FetchedUpTo(_)
FetchedUpTo(k) ==
    IF k = 0 THEN <<>>
    ELSE FetchedUpTo(k - 1)
         \o (IF WindowFailed(windows[k]) THEN <<>>
             ELSE PageRecords(k, windows[k].returned))

\* What is in the output file of an endpoint, apart from the count of opens.
Content(name) == [fieldnames |-> files[name].fieldnames, rows |-> files[name].rows]

\* C17: in one endpoint run the output sink is invoked at most once, only
\* after the last window (when the run has left the batch loop), exactly
\* when records were accumulated, and with all the records fetched,
\* truncated to the limit, under the endpoint's required fields followed by
\* its optional fields.
C17_SinkOnceWithFullSet ==
    /\ sink_calls <= 1
    /\ sink_calls = 1 => pc \in {"Done", "Failed"}
    /\ pc = "Done" =>
          /\ sink_calls = 1 <=> all_records # <<>>
          /\ all_records = Take(FetchedUpTo(Len(windows)), actual_limit)
          /\ sink_calls = 1 =>
                Content(endpoint_names[idx]) =
                    [fieldnames |-> Fields(endpoint_names[idx])
                                      \o OptionalFields(endpoint_names[idx]),
                     rows |-> all_records]

\* Two windows were fetched, more records came than the limit, and the
\* truncated set was written.
C17_Witness ==
    /\ pc = "Done"
    /\ sink_calls = 1
    /\ Len(windows) = 2
    /\ Len(FetchedUpTo(2)) > actual_limit
    /\ Len(files[endpoint_names[idx]].rows) = actual_limit

\* C18: when every window of an endpoint run is answered with zero records
\* and no fetch fails, the result is records_processed = 0, errors = 0,
\* success = true, the sink is not invoked and the output path is empty.
C18_EmptyResource ==
    (/\ pc = "Done"
     /\ windows # <<>>
     /\ \A i \in 1..Len(windows) : windows[i].returned = 0) =>
        /\ result.records_processed = 0
        /\ result.errors = 0
        /\ result.success
        /\ result.csv_file = ""
        /\ sink_calls = 0
        /\ Writes(files, endpoint_names[idx]) = 0

\* The scenario: limit 100 (the default), first page empty.
C18_Witness ==
    /\ pc = "Done"
    /\ actual_limit = 100
    /\ Len(windows) = 1
    /\ windows[1].returned = 0
    /\ result.success
    /\ result.csv_file = ""

\* C19: when an endpoint is run again on the same output directory, the
\* file it leaves holds what a single run with these records leaves: the
\* second write replaces the first one.
C19_RerunOverwrites ==
    (/\ pc = "Done"
     /\ sink_calls = 1
     /\ Writes(files, endpoint_names[idx]) >= 2) =>
        Content(endpoint_names[idx]) =
            [fieldnames |-> GetAllFields(endpoint_names[idx]),
             rows |-> all_records]

\* The second run of calls with limit 1 wrote its one record over the
\* file the first run left.
C19_Witness ==
    /\ run = 2
    /\ pc = "Done"
    /\ endpoint_names = <<"calls">>
    /\ Writes(files, "calls") = 2
    /\ files["calls"].rows = PageRecords(1, 1)

(***************************************************************************)
(* Record extraction.                                                      *)
(***************************************************************************)
\* The records the extraction rule names for a body: the array itself;
\* the list under the endpoint's name; else the list under data, results
\* or items; else the body as single record when it has an id; else none.
NamedRecords(endpoint, data) ==
    IF data.kind = "array" THEN data.v
    ELSE IF data.kind # "mapping" THEN JsonList(0)
    ELSE LET lists == SelectSeq(<<endpoint, "data", "results", "items">>,
                        LAMBDA k : k \in DOMAIN data.m /\ data.m[k].t = "list")
         IN  IF lists # <<>> THEN data.m[lists[1]]
             ELSE IF "id" \in DOMAIN data.m THEN Wrapped
             ELSE JsonList(0)

\* C20: for every endpoint processor, extraction returns the array itself
\* for a bare array, the list under the endpoint's plural name, else the
\* list under data/results/items, else the single bare record in a
\* one-element sequence, and zero records for any other body (a non-list
\* value under the endpoint's name included), without raising and without
\* failing the batch.
C20_ExtractionRuleForEveryProcessor ==
    ret.done =>
        /\ ret.records = NamedRecords(call.endpoint, call.data)
        /\ ~ret.batch.raises

\* The rule holds for the generic processors.
GenericExtractionFollowsRule ==
    (ret.done /\ call.endpoint \notin {"accounts", "calls"}) =>
        /\ ret.records = NamedRecords(call.endpoint, call.data)
        /\ ~ret.batch.raises

(***************************************************************************)
(* Record normalisation.                                                   *)
(***************************************************************************)
\* The dataclass of the endpoint can be built from the raw record.
Normalizable(name, raw) ==
    raw.kind = "mapping" /\ ModelRequired(name) \subseteq raw.keys

\* C21: process_records returns as many records as it was given, in the
\* same order, and a record whose normalisation fails comes back as the
\* raw record, unmodified.
C21_NormalizationKeepsEveryRecord ==
    ret.done =>
        /\ Len(ret.records) = Len(call.records)
        /\ \A i \in 1..Len(call.records) :
              /\ ret.records[i].v = call.records[i].v
              /\ ~Normalizable(call.endpoint, call.records[i]) =>
                     ret.records[i] = call.records[i]

\* A batch of two: the first record lacks a required field and comes back
\* raw, the second one was normalised.
C21_Witness ==
    /\ ret.done
    /\ Len(call.records) = 2
    /\ ~Normalizable(call.endpoint, call.records[1])
    /\ call.records[1].kind = "mapping"
    /\ ret.records[1] = call.records[1]
    /\ Normalizable(call.endpoint, call.records[2])
    /\ ret.records[2] # call.records[2]

\* The declared (required + optional) field names of an endpoint.
DeclaredFields(name) ==
    {GetAllFields(name)[i] : i \in 1..Len(GetAllFields(name))}

\* C22: when normalisation succeeds, the keys of the normalised record are
\* the raw record's keys that the endpoint declares: undeclared keys are
\* removed and a declared field the raw record lacks is not added with a
\* default.
C22_NormalizedKeysAreDeclaredRawKeys ==
    ret.done =>
        \A i \in 1..Len(call.records) :
            Normalizable(call.endpoint, call.records[i]) =>
                /\ ret.records[i].keys =
                       call.records[i].keys \cap DeclaredFields(call.endpoint)
                /\ ret.records[i].defaulted = {}

\* What the code does instead: the keys are the dataclass's fields, the
\* ones the raw record lacks hold the default None.
NormalizedKeysAreModelFields ==
    ret.done =>
        \A i \in 1..Len(call.records) :
            Normalizable(call.endpoint, call.records[i]) =>
                /\ ret.records[i].keys = ModelFields(call.endpoint)
                /\ ret.records[i].defaulted =
                       ModelFields(call.endpoint) \ call.records[i].keys

(***************************************************************************)
(* Batch loop: the state machine of one endpoint run and its windows.      *)
(***************************************************************************)
\* The steps of an endpoint run, as a relation on the control state;
\* `direct` tells whether a run may go from Idle to Finalizing without
\* fetching any window.
RunTransitions(direct) ==
    /\ (pc = "Idle" /\ ~CrashStep) =>
          \/ pc' = "Fetching" /\ batch_number' = 1 /\ Len(windows') = 0
          \/ direct /\ pc' = "Finalizing" /\ actual_limit' <= 0
    /\ pc = "Fetching" =>
          /\ batch_number' = batch_number
          /\ offset' = offset
          /\ \/ pc' = "Fetching"
             \/ pc' = "Accumulating" /\ Len(windows') = batch_number
    /\ pc = "Accumulating" =>
          \/ /\ pc' = "Fetching"
             /\ batch_number' = batch_number + 1
             /\ offset' < actual_limit
             /\ Len(all_records') < actual_limit
          \/ /\ pc' = "Finalizing"
             /\ offset' >= actual_limit \/ Len(all_records') >= actual_limit
    /\ pc = "Finalizing" => pc' \in {"Done", "Failed"}
    /\ pc \in {"Done", "Failed"} => pc' \in {"Idle", "Complete"}
    /\ pc' = "Fetching" => pc \in {"Idle", "Fetching", "Accumulating"}
    /\ pc' = "Accumulating" => pc = "Fetching"
    /\ pc' = "Finalizing" => pc \in {"Accumulating"} \cup (IF direct THEN {"Idle"} ELSE {})
    /\ pc' \in {"Done", "Failed"} => pc = "Finalizing"

\* C23 as stated: an endpoint run only goes Idle -> Fetching(1),
\* Fetching(n) -> Accumulating, Accumulating -> Fetching(n+1) or
\* Finalizing, Finalizing -> Done or Failed; windows are numbered in
\* increasing order without skipping, Finalizing is not entered while a
\* window remains and the limit is not reached, nothing is fetched after
\* Finalizing.
C23_RunStateMachine == [][RunTransitions(FALSE)]_vars

\* C23 as amended: the same, and a run whose effective limit is not
\* positive has no window and goes from Idle to Finalizing directly.
C23_RunStateMachineWithEmptyRun == [][RunTransitions(TRUE)]_vars

\* A run of three windows has returned.
C23_Witness ==
    /\ pc = "Done"
    /\ Len(windows) = 3
    /\ batch_number = 4

\* Sum of the sizes of the first k windows of the log.
RECURSIVE SizesUpTo(_)
SizesUpTo(k) == IF k = 0 THEN 0 ELSE SizesUpTo(k - 1) + windows[k].size

\* Every window of the run has been generated.
AllWindowsGenerated ==
    /\ windows # <<>>
    /\ windows[Len(windows)].offset + windows[Len(windows)].size >= actual_limit

\* C24: for a positive limit and batch size the windows are (offset_k,
\* size_k) with offset_1 = 0, offset_(k+1) = offset_k + size_k and size_k =
\* min(batch_size, limit - offset_k): consecutive, not overlapping, only
\* the last one smaller than batch_size, and their sizes sum to the limit
\* once all are generated.
C24_WindowsPartitionLimit ==
    (actual_limit > 0 /\ actual_batch_size > 0) =>
        /\ \A k \in 1..Len(windows) :
              /\ windows[k].offset = SizesUpTo(k - 1)
              /\ windows[k].size =
                    (IF actual_batch_size <= actual_limit - windows[k].offset
                     THEN actual_batch_size
                     ELSE actual_limit - windows[k].offset)
              /\ windows[k].size > 0
              /\ k < Len(windows) => windows[k].size = actual_batch_size
        /\ AllWindowsGenerated => SizesUpTo(Len(windows)) = actual_limit

\* Limit 5 in windows of 2: the sizes are 2, 2, 1.
C24_Witness ==
    /\ actual_limit = 5
    /\ actual_batch_size = 2
    /\ Len(windows) = 3
    /\ windows[3].offset = 4
    /\ windows[3].size = 1

\* C25: as soon as the accumulated records reach the limit after a window,
\* no further window is fetched and the final record set is the first
\* `limit` records in fetch order.
C25_StopsAtLimitAndTruncates ==
    /\ [][(pc = "Accumulating"
           /\ Len(all_records) + Len(batch_records) >= actual_limit) =>
              /\ pc' = "Finalizing"
              /\ Len(all_records') = actual_limit
              /\ all_records' =
                    SubSeq(all_records \o batch_records, 1, actual_limit)
         ]_vars
    /\ [](\A k \in 1..(Len(windows) - 1) : Len(FetchedUpTo(k)) < actual_limit)
    /\ []((pc = "Done" /\ Len(FetchedUpTo(Len(windows))) >= actual_limit) =>
              all_records = SubSeq(FetchedUpTo(Len(windows)), 1, actual_limit))

\* Limit 5 in windows of 2 against a remote that returns 3 records per
\* page: the run stopped after two of the three windows, with 5 of the 6
\* records.
C25_Witness ==
    /\ pc = "Done"
    /\ actual_limit = 5
    /\ actual_batch_size = 2
    /\ Len(windows) = 2
    /\ Len(FetchedUpTo(2)) = 6
    /\ Len(all_records) = 5
    /\ all_records[5] = [batch |-> 2, i |-> 2]

\* The names before position k of the requested list.
NamesBefore(k) == {endpoint_names[j] : j \in 1..(k - 1)}

\* C26: endpoints are processed in the order of the requested list and
\* one at a time: while endpoint k runs, exactly the endpoints before it
\* have their result recorded; within an endpoint one window is fetched at
\* a time, in increasing offset order.
C26_StrictlySequential ==
    /\ [](pc \in {"Idle", "Fetching", "Accumulating", "Finalizing", "Done",
                  "Failed"} =>
              /\ idx \in 1..Len(endpoint_names)
              /\ DOMAIN results = NamesBefore(idx)
              /\ summary.successful_endpoints + summary.failed_endpoints
                     = idx - 1)
    /\ [](\A k \in 1..(Len(windows) - 1) :
              windows[k].offset < windows[k + 1].offset)
    /\ [](pc = "Fetching" =>
              /\ Len(windows) = batch_number - 1
              /\ \A k \in 1..Len(windows) : windows[k].offset < offset)
    /\ [][/\ idx' \in {idx, idx + 1}
          /\ idx' = idx + 1 =>
                /\ pc \in {"Idle", "Done", "Failed"}
                /\ endpoint_names[idx] \in DOMAIN results'
          /\ endpoint_names' = endpoint_names
         ]_vars

\* The second endpoint of the list is in its second window, the first
\* endpoint's result is recorded.
C26_Witness ==
    /\ pc = "Fetching"
    /\ idx = 2
    /\ batch_number = 2
    /\ DOMAIN results = {endpoint_names[1]}
    /\ results[endpoint_names[1]].records_processed > 0

NominalDelay(config, i) ==
    LET d == config.base_delay * Pow(config.exponential_base, i)
    IN  IF d <= config.max_delay THEN d ELSE config.max_delay

DefaultDelays(config) ==
    /\ config.base_delay = 1
    /\ config.exponential_base = 2
    /\ config.max_delay = 60

\* C28: before jitter, the wait between failed attempt i (counted from 0)
\* and attempt i+1 is min(base_delay * multiplier^i, max_delay): 1 then 2
\* seconds with the defaults, never decreasing with i and never above
\* max_delay.
C28_ExponentialBackoffCapped ==
    ret.done =>
        LET i == call.attempt - 1 IN
        /\ ret.computed = NominalDelay(call.config, i)
        /\ ret.computed <= call.config.max_delay
        /\ i > 0 => ret.computed >= NominalDelay(call.config, i - 1)
        /\ (DefaultDelays(call.config) /\ i = 0) => ret.computed = 1
        /\ (DefaultDelays(call.config) /\ i = 1) => ret.computed = 2

\* With the defaults the wait after the seventh failed attempt is the
\* cap, 60 (2^6 = 64).
C28_Witness ==
    /\ ret.done
    /\ DefaultDelays(call.config)
    /\ call.attempt = 7
    /\ ret.computed = 60

\* C29: with jitter enabled the wait that is slept is the computed delay
\* times the random factor in [0.5, 1.0]; with jitter disabled it is the
\* computed delay.
C29_JitterApplied ==
    ret.done =>
        IF call.config.jitter
        THEN ret.slept * 100 = ret.computed * call.random
        ELSE ret.slept = ret.computed

\* What the code does: the computed delay is slept whatever the jitter
\* setting and the random source.
SleptIsComputedDelay == ret.done => ret.slept = ret.computed

\* C30: for a page-based endpoint and a window (offset, size) the request
\* carries page = floor(offset / size) + 1 and per_page = min(size, cap).
C30_PageBasedParameters ==
    (ret.done /\ call.endpoint # "calls") =>
        /\ ret.params.page # None
        /\ LET page == ret.params.page[1] IN
              /\ (page - 1) * call.size <= call.offset
              /\ call.offset < page * call.size
        /\ ret.params.per_page =
              (IF call.size <= 250 THEN call.size ELSE 250)

\* Offset 500 and size 251: page 2, per_page capped at 250.
C30_Witness ==
    /\ ret.done
    /\ call.endpoint = "users"
    /\ call.offset = 500
    /\ call.size = 251
    /\ ret.params.page = Some(2)
    /\ ret.params.per_page = 250

\* C31: every request of the cursor-based endpoint (calls) carries
\* per_page = min(size, page size cap) and no page number, at offset 0 and
\* at every later offset.
C31_CallsNeverSendsPage ==
    (ret.done /\ call.endpoint = "calls") =>
        /\ ret.params.page = None
        /\ ret.params.per_page =
              (IF call.size <= max_per_page THEN call.size ELSE max_per_page)

\* A later window of calls (offset 250, size 251): no page, per_page capped.
C31_Witness ==
    /\ ret.done
    /\ call.endpoint = "calls"
    /\ call.offset = max_per_page
    /\ call.size = max_per_page + 1
    /\ ret.params.page = None
    /\ ret.params.per_page = max_per_page

\* The parameters of a fetch_batch call have just been built: the company
\* lookup of a company-scoped endpoint is over.
ParamsJustBuilt == pc = "Fetching" /\ pc' # "Fetching"

\* The answer that ended the company lookup lists at least one company.
CompanyFound(resp) == resp.kind = "http" /\ resp.status = 200 /\ resp.n >= 1

\* C32: for a company-scoped endpoint, whatever the company lookup gives,
\* the fetch goes on to send the page request: no window fails and no
\* exception is raised by the lookup; the request carries the first
\* company's id when the lookup found companies and no company_id when the
\* lookup failed or found none.
C32_CompanyLookupBestEffort ==
    /\ [][ParamsJustBuilt =>
            /\ pc' = "Requesting"
            /\ params'.built
            /\ windows' = windows
            /\ raised' = NoExc
            /\ batch_errors' = 0
            /\ params'.company_id =
                  (IF CompanyFound(response') THEN Some(CompanyIds[1]) ELSE None)]_vars
    /\ [](pc = "Requesting" => params.built)

\* A page request sent without company_id, after a lookup that failed or
\* found no company, returned a record.
C32_Witness ==
    /\ pc = "Accumulating"
    /\ RequiresCompanyId(endpoint_names[idx])
    /\ params.built
    /\ params.company_id = None
    /\ company_lookups >= 1
    /\ windows[Len(windows)].returned = 1

\* C33: the company identifier is resolved once per run: at most one company
\* lookup request is sent to the transport, whatever the number of windows,
\* of retry attempts and of company-scoped endpoints.
C33_CompanyResolvedOncePerRun == company_lookups <= 1

\* What the code does: every call of fetch_batch on a company-scoped
\* endpoint sends at least one company lookup request of its own.
LookupsAtLeastPageRequests ==
    (pc = "Accumulating" /\ RequiresCompanyId(endpoint_names[idx])) =>
        company_lookups >= Len(windows)

\* Sum of a counter of the endpoint results over the entries `names` of
\* the result mapping.
RECURSIVE SumOverMapping(_, _)
SumOverMapping(names, field) ==
    IF names = {} THEN 0
    ELSE LET name == CHOOSE n \in names : TRUE
         IN (IF field = "records" THEN results[name].records_processed
             ELSE results[name].errors)
            + SumOverMapping(names \ {name}, field)

\* The summary counters are those of the entries of the result mapping.
SummaryMatchesMapping ==
    /\ summary.successful_endpoints + summary.failed_endpoints
           = summary.total_endpoints
    /\ summary.successful_endpoints
           = Cardinality({name \in DOMAIN results : results[name].success})
    /\ summary.total_records = SumOverMapping(DOMAIN results, "records")
    /\ summary.total_errors = SumOverMapping(DOMAIN results, "errors")

\* No endpoint is named twice in the requested list.
DistinctNames ==
    \A i, j \in 1..Len(endpoint_names) :
        endpoint_names[i] = endpoint_names[j] => i = j

\* C34: when download_endpoints returns, the summary counters are consistent
\* with the per-endpoint result mapping, for any requested list, one that
\* names the same endpoint twice included.
C34_SummaryConsistentWithMapping == pc = "Complete" => SummaryMatchesMapping

\* What the code guarantees: the counters match the mapping when the
\* requested names are distinct.
SummaryConsistentForDistinctNames ==
    (pc = "Complete" /\ DistinctNames) => SummaryMatchesMapping

\* The generator of process_in_batches is resumed for one more window.
NextWindowStep == pc = "Accumulating" /\ pc' = "Fetching"

\* The loop over the windows is left.
LastWindowStep == pc = "Accumulating" /\ pc' = "Finalizing"

\* C35: for a positive limit and batch size, and every transport call
\* returning, an endpoint run terminates: the offset strictly increases at
\* each iteration, at most ceil(limit / batch_size) windows are fetched, the
\* loop is left only when the limit is reached (by the records or by the
\* offset), never because a page was empty, and process_endpoint returns a
\* result.
C35_EndpointRunTerminates ==
    /\ [][NextWindowStep => (offset' > offset /\ offset' < actual_limit)]_vars
    /\ [][LastWindowStep =>
            (Len(all_records') >= actual_limit \/ offset' >= actual_limit)]_vars
    /\ [](actual_limit > 0 =>
            Len(windows) <= TotalBatches(actual_limit, actual_batch_size))
    /\ ((pc = "Fetching" /\ actual_limit > 0 /\ actual_batch_size > 0)
            ~> (pc \in {"Done", "Failed"} /\ result # NoResult))

\* The first page was empty, a second window was fetched all the same and
\* process_endpoint returned.
C35_Witness ==
    /\ pc = "Done"
    /\ actual_limit > 0
    /\ Len(windows) = 2
    /\ windows[1].returned = 0
    /\ result.endpoint = endpoint_names[idx]

\* Remote record indexes the request of window k addresses:
\* [(page - 1) * per_page, page * per_page).
AddressedBy(k, i) ==
    LET request == ret.requests[k]
    IN /\ (request.page[1] - 1) * request.per_page <= i
       /\ i < request.page[1] * request.per_page

\* C36: for a page-based endpoint, the index ranges addressed by the
\* requests of the successive windows of a run are pairwise disjoint and
\* cover exactly [0, limit), for every limit and batch size.
C36_PageRangesPartitionLimit ==
    (ret.done /\ call.fn = "process_in_batches" /\ call.endpoint # "calls") =>
        /\ \A i \in 0..(call.limit - 1) :
              Cardinality({k \in DOMAIN ret.requests : AddressedBy(k, i)}) = 1
        /\ \A k \in DOMAIN ret.requests :
              ret.requests[k].page[1] * ret.requests[k].per_page <= call.limit

\* What the code guarantees: the ranges partition [0, limit) when the batch
\* size divides the limit and does not exceed the page size cap.
PageRangesPartitionAlignedLimit ==
    (ret.done /\ call.fn = "process_in_batches" /\ call.endpoint # "calls"
       /\ call.limit % call.batch_size = 0 /\ call.batch_size <= max_per_page) =>
        \A i \in 0..(call.limit - 1) :
            Cardinality({k \in DOMAIN ret.requests : AddressedBy(k, i)}) = 1

\* C37: in a multi-window run of the cursor-based endpoint (calls), no two
\* windows send the same pagination request.
C37_CallsRequestsDistinct ==
    (ret.done /\ call.fn = "process_in_batches" /\ call.endpoint = "calls") =>
        \A j, k \in DOMAIN ret.requests :
            ret.requests[j] = ret.requests[k] => j = k

\* What the code does: two windows of calls of the same size send the same
\* request.
CallsRequestDependsOnSizeOnly ==
    (ret.done /\ call.fn = "process_in_batches" /\ call.endpoint = "calls") =>
        \A j, k \in DOMAIN ret.requests :
            ret.windows[j].size = ret.windows[k].size
                => ret.requests[j] = ret.requests[k]

\* A step of the account resolution that assigns the cached account id.
AssignsAccountId == account_id' # account_id

\* C38: a failed account-scope resolution leaves the cached account id
\* unset: the field is only ever assigned a non-empty identifier obtained
\* from a successful lookup; a later download_endpoints call on the same
\* coordinator attempts the lookup again; a run never proceeds to endpoint
\* processing with an empty account id.
C38_FailedResolutionAssignsNothing ==
    /\ [][AssignsAccountId =>
            (Truthy(account_id') /\ MakeRequestException(response') = NoExc)]_vars
    /\ [][(pc = "Resolve" /\ ~Truthy(account_id)) => network_used']_vars
    /\ [](EndpointRunning => Truthy(account_id))

\* C38 as amended: a failed resolution never leaves a usable identifier
\* cached: the field then holds None or the empty string the accounts
\* processor returned, both of which count as unset; a non-empty identifier
\* comes only from a successful lookup; a later download_endpoints call on
\* the same coordinator attempts the lookup again; a run never proceeds to
\* endpoint processing with an empty account id.
C38_FailedResolutionCachesNoUsableId ==
    /\ [][(pc = "Resolve" /\ pc' = "Raised") =>
            (account_id' \in {NoneId, ""} /\ ~Truthy(account_id'))]_vars
    /\ [][(AssignsAccountId /\ Truthy(account_id')) =>
            (MakeRequestException(response') = NoExc /\ response'.n >= 1)]_vars
    /\ [][(pc = "Resolve" /\ ~Truthy(account_id)) => network_used']_vars
    /\ [](EndpointRunning => Truthy(account_id))

\* The first run's resolution failed and left the empty string in the
\* field; the second run looked the account up again and is processing an
\* endpoint with the identifier found.
C38_Witness ==
    /\ run = 2
    /\ account_lookups = 2
    /\ account_id = "ACC1"
    /\ pc = "Fetching"

\* The write of the accumulated records raised.
WriteFailedStep == pc = "Finalizing" /\ pc' = "Failed"

\* C39: when the sink write raises after records were accumulated, the
\* exception does not escape process_endpoint: the endpoint result is
\* records_processed = 0, errors = 1, success = false, with an error message
\* and an empty output path, whatever was fetched and whatever window
\* failures were counted before.
C39_FailedWriteResult ==
    /\ [][WriteFailedStep =>
            /\ all_records # <<>>
            /\ result'.endpoint = endpoint_names[idx]
            /\ result'.records_processed = 0
            /\ result'.errors = 1
            /\ result'.success = FALSE
            /\ result'.csv_file = ""
            /\ result'.error # ""
            /\ run_error' = NoError]_vars
    /\ [][(pc = "Failed" /\ pc' # "Failed") =>
            /\ pc' \in {"Idle", "Complete"}
            /\ results'[endpoint_names[idx]].records_processed = 0
            /\ results'[endpoint_names[idx]].errors = 1
            /\ ~results'[endpoint_names[idx]].success]_vars

\* The write failed after two records were accumulated and one window had
\* failed: the result counts no record and one error.
C39_Witness ==
    /\ pc = "Failed"
    /\ Len(all_records) >= 2
    /\ error_count >= 1
    /\ result.records_processed = 0
    /\ result.errors = 1

\* The value in force for a requested Optional[int]: the requested value
\* when it is given and not 0, the configured default otherwise.
Effective(requested, default) ==
    IF requested # None /\ requested[1] # 0 THEN requested[1] ELSE default

====
